---- MODULE Spec2Model ----
(***************************************************************************)
(* Samsung HVAC emulator: a set of Modbus slaves, each a bank of 500       *)
(* holding registers, served by a Modbus TCP (MBAP) codec and a Modbus RTU *)
(* (CRC16) codec that share one register store with the web editor.        *)
(*                                                                         *)
(* Buffers are sequences of bytes (0..255).  Buffer offsets in the source  *)
(* are 0-based, sequences here are 1-based: offset k is element k + 1.     *)
(***************************************************************************)
EXTENDS Integers, Sequences, FiniteSets, TLC

\* this.registerCount = 500 (both codecs) / REGISTER_COUNT
registerCount == 500

\* Slaves 1..MaxSlave are configured (SLAVE_IDS, shortened).
MaxSlave == 2
SLAVE_IDS == 1..MaxSlave

\* A unit id that is never configured.
UnknownUnit == 99

\* processRequest returned null: nothing is written on the channel.  Every
\* real response has at least five bytes, so the empty buffer is free.
NoResponse == <<>>

-----------------------------------------------------------------------------
(* Buffer primitives                                                       *)

readUInt8(buf, off) == buf[off + 1]

readUInt16BE(buf, off) == buf[off + 1] * 256 + buf[off + 2]

readUInt16LE(buf, off) == buf[off + 1] + buf[off + 2] * 256

writeUInt16BE(v) == << v \div 256, v % 256 >>

\* buf.slice(from, to): bytes at offsets from .. to-1
slice(buf, from, to) == SubSeq(buf, from + 1, to)

\* functionCode | 0x80 on a byte
OrHighBit(functionCode) ==
  IF functionCode >= 128 THEN functionCode ELSE functionCode + 128

\* What a codec call leaves behind: the bytes to send (or NoResponse), the
\* register store afterwards and the number of storage.saveSlaves() calls.
Outcome(resp, sl, n) == [response |-> resp, slaves |-> sl, saves |-> n]

-----------------------------------------------------------------------------
(* Register access shared by the two codecs                                *)

\* ReadLoop reading registers[startAddr] for every i
ReadLoopSameRegister(registers, startAddr, quantity) ==
  [k \in 1..(2 * quantity) |->
      LET i   == (k - 1) \div 2
          val == IF startAddr + i < registerCount
                 THEN registers[startAddr] ELSE 0
      IN  writeUInt16BE(val)[((k - 1) % 2) + 1]]

\* The 0x03 loop: for i in [0, quantity) the value is registers[startAddr+i]
\* when startAddr + i < registerCount and 0 otherwise, written big-endian.
ReadLoop(registers, startAddr, quantity) ==
  [k \in 1..(2 * quantity) |->
      LET i   == (k - 1) \div 2
          val == IF startAddr + i < registerCount
                 THEN registers[startAddr + i] ELSE 0
      IN  writeUInt16BE(val)[((k - 1) % 2) + 1]]

\* registers.length
ArrayLength(registers) == Cardinality(DOMAIN registers)

\* A run of assignments registers[index] = value on a JavaScript array, asg
\* mapping each assigned index to the value it receives: an index past the
\* end lengthens the array, the entries skipped over being holes (-1).
AssignAll(registers, asg) ==
  LET last == IF DOMAIN asg = {} THEN -1
              ELSE CHOOSE m \in DOMAIN asg : \A x \in DOMAIN asg : x <= m
      top  == IF last >= ArrayLength(registers) THEN last ELSE ArrayLength(registers) - 1
  IN  [a \in 0..top |->
         IF a \in DOMAIN asg THEN asg[a]
         ELSE IF a \in DOMAIN registers THEN registers[a] ELSE -1]

\* registers[index] = value
ArrayAssign(registers, index, value) ==
  AssignAll(registers, [a \in {index} |-> value])

\* WriteLoop without the startAddr + i < registerCount test
WriteLoopUnchecked(registers, buf, base, startAddr, quantity) ==
  AssignAll(registers,
            [a \in { startAddr + i : i \in 0..(quantity - 1) }
               |-> readUInt16BE(buf, base + (a - startAddr) * 2)])

\* The 0x10 loop: the i-th value of the request (at offset base + 2i) is
\* assigned to registers[startAddr + i] only when startAddr+i < registerCount.
WriteLoop(registers, buf, base, startAddr, quantity) ==
  AssignAll(registers,
            [a \in { startAddr + i : i \in { j \in 0..(quantity - 1) : startAddr + j < registerCount } }
               |-> readUInt16BE(buf, base + (a - startAddr) * 2)])

-----------------------------------------------------------------------------
(* Modbus TCP codec (MBAP header, no CRC)                                  *)

TcpCreateExceptionResponse(transactionId, protocolId, unitId, functionCode, exceptionCode) ==
  writeUInt16BE(transactionId) \o writeUInt16BE(protocolId) \o writeUInt16BE(3)
    \o << unitId, OrHighBit(functionCode), exceptionCode >>

\* TcpAssemble with a length field that leaves out the unit id byte
TcpAssembleNoUnitByte(transactionId, protocolId, unitId, responsePDU) ==
  writeUInt16BE(transactionId) \o writeUInt16BE(protocolId)
    \o writeUInt16BE(Len(responsePDU)) \o << unitId >> \o responsePDU

\* Response assembly: MBAP with length = PDU length + 1, then the PDU.
TcpAssemble(transactionId, protocolId, unitId, responsePDU) ==
  LET responseLength == Len(responsePDU) + 1
  IN  writeUInt16BE(transactionId) \o writeUInt16BE(protocolId)
        \o writeUInt16BE(responseLength) \o << unitId >> \o responsePDU

\* TcpUnknownUnit dropping the request, as the RTU codec does
TcpUnknownUnitSilent(sl, transactionId, protocolId, unitId, functionCode) ==
  Outcome(NoResponse, sl, 0)

\* unitId not in slaves: exception 0x0B
TcpUnknownUnit(sl, transactionId, protocolId, unitId, functionCode) ==
  Outcome(TcpCreateExceptionResponse(transactionId, protocolId, unitId, functionCode, 11), sl, 0)

\* default case: exception 0x01
TcpUnsupportedFunction(sl, transactionId, protocolId, unitId, functionCode) ==
  Outcome(TcpCreateExceptionResponse(transactionId, protocolId, unitId, functionCode, 1), sl, 0)

\* QuantityOutOfRange with the upper limit off by one
QuantityOutOfRangeOffByOne(quantity) == quantity < 1 \/ quantity >= 125

\* quantity < 1 || quantity > 125
QuantityOutOfRange(quantity) == quantity < 1 \/ quantity > 125

\* case 0x03
TcpReadHoldingRegisters(sl, transactionId, protocolId, unitId, functionCode, pdu) ==
  IF Len(pdu) < 5
  THEN Outcome(TcpCreateExceptionResponse(transactionId, protocolId, unitId, functionCode, 3), sl, 0)
  ELSE LET startAddr == readUInt16BE(pdu, 1)
           quantity  == readUInt16BE(pdu, 3)
           byteCount == quantity * 2
       IN  IF QuantityOutOfRange(quantity)
           THEN Outcome(TcpCreateExceptionResponse(transactionId, protocolId, unitId, functionCode, 3), sl, 0)
           ELSE Outcome(TcpAssemble(transactionId, protocolId, unitId,
                          << functionCode, byteCount >> \o ReadLoop(sl[unitId], startAddr, quantity)),
                        sl, 0)

\* TcpWriteSingleRegister assigning the register after the addressed one
TcpWriteSingleRegisterOffByOne(sl, transactionId, protocolId, unitId, functionCode, pdu) ==
  IF Len(pdu) < 5
  THEN Outcome(TcpCreateExceptionResponse(transactionId, protocolId, unitId, functionCode, 3), sl, 0)
  ELSE LET regAddr == readUInt16BE(pdu, 1)
           value   == readUInt16BE(pdu, 3)
       IN  IF regAddr < registerCount
           THEN Outcome(TcpAssemble(transactionId, protocolId, unitId, slice(pdu, 0, 5)),
                        [sl EXCEPT ![unitId] = ArrayAssign(sl[unitId], regAddr + 1, value)], 1)
           ELSE Outcome(TcpCreateExceptionResponse(transactionId, protocolId, unitId, functionCode, 2), sl, 0)

\* case 0x06
TcpWriteSingleRegister(sl, transactionId, protocolId, unitId, functionCode, pdu) ==
  IF Len(pdu) < 5
  THEN Outcome(TcpCreateExceptionResponse(transactionId, protocolId, unitId, functionCode, 3), sl, 0)
  ELSE LET regAddr == readUInt16BE(pdu, 1)
           value   == readUInt16BE(pdu, 3)
       IN  IF regAddr < registerCount
           THEN Outcome(TcpAssemble(transactionId, protocolId, unitId, slice(pdu, 0, 5)),
                        [sl EXCEPT ![unitId] = ArrayAssign(sl[unitId], regAddr, value)], 1)
           ELSE Outcome(TcpCreateExceptionResponse(transactionId, protocolId, unitId, functionCode, 2), sl, 0)

\* TcpWriteMultipleRegisters assigning the values the PDU holds before it
\* compares the byte count with the quantity and the length
TcpWriteMultipleRegistersAssignsFirst(sl, transactionId, protocolId, unitId, functionCode, pdu) ==
  IF Len(pdu) < 6
  THEN Outcome(TcpCreateExceptionResponse(transactionId, protocolId, unitId, functionCode, 3), sl, 0)
  ELSE LET startAddr == readUInt16BE(pdu, 1)
           quantity  == readUInt16BE(pdu, 3)
           byteCount == readUInt8(pdu, 5)
           held      == IF quantity * 2 <= Len(pdu) - 6 THEN quantity ELSE (Len(pdu) - 6) \div 2
           assigned  == [sl EXCEPT ![unitId] = WriteLoop(sl[unitId], pdu, 6, startAddr, held)]
       IN  IF byteCount # quantity * 2 \/ Len(pdu) < 6 + byteCount
           THEN Outcome(TcpCreateExceptionResponse(transactionId, protocolId, unitId, functionCode, 3),
                        assigned, 0)
           ELSE Outcome(TcpAssemble(transactionId, protocolId, unitId,
                          << functionCode >> \o writeUInt16BE(startAddr) \o writeUInt16BE(quantity)),
                        assigned, 1)

\* case 0x10
TcpWriteMultipleRegisters(sl, transactionId, protocolId, unitId, functionCode, pdu) ==
  IF Len(pdu) < 6
  THEN Outcome(TcpCreateExceptionResponse(transactionId, protocolId, unitId, functionCode, 3), sl, 0)
  ELSE LET startAddr == readUInt16BE(pdu, 1)
           quantity  == readUInt16BE(pdu, 3)
           byteCount == readUInt8(pdu, 5)
       IN  IF byteCount # quantity * 2 \/ Len(pdu) < 6 + byteCount
           THEN Outcome(TcpCreateExceptionResponse(transactionId, protocolId, unitId, functionCode, 3), sl, 0)
           ELSE Outcome(TcpAssemble(transactionId, protocolId, unitId,
                          << functionCode >> \o writeUInt16BE(startAddr) \o writeUInt16BE(quantity)),
                        [sl EXCEPT ![unitId] = WriteLoop(sl[unitId], pdu, 6, startAddr, quantity)],
                        1)

\* ProtocolIdRejected looking at the low byte of the protocol id only
ProtocolIdRejectedLowByte(protocolId) == protocolId % 256 # 0

\* protocolId !== 0
ProtocolIdRejected(protocolId) == protocolId # 0

TcpProcessRequest(sl, requestBuffer) ==
  IF Len(requestBuffer) < 8 THEN Outcome(NoResponse, sl, 0)
  ELSE LET transactionId == readUInt16BE(requestBuffer, 0)
           protocolId    == readUInt16BE(requestBuffer, 2)
           length        == readUInt16BE(requestBuffer, 4)
           unitId        == readUInt8(requestBuffer, 6)
           functionCode  == readUInt8(requestBuffer, 7)
           pdu           == slice(requestBuffer, 7, Len(requestBuffer))
       IN  IF ProtocolIdRejected(protocolId) THEN Outcome(NoResponse, sl, 0)
           ELSE IF Len(requestBuffer) < 6 + length THEN Outcome(NoResponse, sl, 0)
           ELSE IF unitId \notin DOMAIN sl
           THEN TcpUnknownUnit(sl, transactionId, protocolId, unitId, functionCode)
           ELSE CASE functionCode = 3 ->
                       TcpReadHoldingRegisters(sl, transactionId, protocolId, unitId, functionCode, pdu)
                  [] functionCode = 6 ->
                       TcpWriteSingleRegister(sl, transactionId, protocolId, unitId, functionCode, pdu)
                  [] functionCode = 16 ->
                       TcpWriteMultipleRegisters(sl, transactionId, protocolId, unitId, functionCode, pdu)
                  [] OTHER ->
                       TcpUnsupportedFunction(sl, transactionId, protocolId, unitId, functionCode)

-----------------------------------------------------------------------------
(* CRC16 engine (CRC-16/MODBUS)                                            *)

\* bit of weight w (a power of two) of a
Bit(a, w) == (a \div w) % 2

\* crc ^= buffer[pos]: a ^ b = a + b - 2 (a & b), and a byte b has its bits
\* among the low eight
XorByte(crc, byte) ==
  crc + byte
    - 2 * (  Bit(crc, 1) * Bit(byte, 1) + 2 * Bit(crc, 2) * Bit(byte, 2)
           + 4 * Bit(crc, 4) * Bit(byte, 4) + 8 * Bit(crc, 8) * Bit(byte, 8)
           + 16 * Bit(crc, 16) * Bit(byte, 16) + 32 * Bit(crc, 32) * Bit(byte, 32)
           + 64 * Bit(crc, 64) * Bit(byte, 64) + 128 * Bit(crc, 128) * Bit(byte, 128))

\* x ^ 0xA001: the polynomial has bits 15, 13 and 0
XorPoly(x) ==
  x + 40961 - 2 * (32768 * Bit(x, 32768) + 8192 * Bit(x, 8192) + Bit(x, 1))

\* CrcShift that never XORs the polynomial in
CrcShiftNoPoly(crc) == crc \div 2

\* One pass of the inner loop: shift right, XOR 0xA001 when the bit shifted
\* out is 1.
CrcShift(crc) ==
  IF crc % 2 # 0 THEN XorPoly(crc \div 2) ELSE crc \div 2

RECURSIVE CrcBits(_, _)
CrcBits(crc, i) == IF i >= 8 THEN crc ELSE CrcBits(CrcShift(crc), i + 1)

\* The outer loop over buffer offsets lo .. hi-1, split in halves.  The test
\* on crc (a 16-bit register, never negative) makes each partial result a
\* value before the next byte is folded in.
RECURSIVE CrcBytes(_, _, _, _)
CrcBytes(crc, buffer, lo, hi) ==
  IF lo >= hi \/ crc < 0 THEN crc
  ELSE IF hi = lo + 1 THEN CrcBits(XorByte(crc, buffer[lo + 1]), 0)
  ELSE CrcBytes(CrcBytes(crc, buffer, lo, (lo + hi) \div 2), buffer, (lo + hi) \div 2, hi)

calculateCRC(buffer) == CrcBytes(65535, buffer, 0, Len(buffer))

\* appendCRC writing the CRC high byte first (writeUInt16BE)
appendCRCHighByteFirst(bufferWithoutCRC) ==
  LET crc == calculateCRC(bufferWithoutCRC)
  IN  bufferWithoutCRC \o << (crc \div 256) % 256, crc % 256 >>

\* CRC appended low byte first
appendCRC(bufferWithoutCRC) ==
  LET crc == calculateCRC(bufferWithoutCRC)
  IN  bufferWithoutCRC \o << crc % 256, (crc \div 256) % 256 >>

\* verifyCRC comparing the low byte of the CRC only
verifyCRCLowByteOnly(buffer) ==
  IF Len(buffer) < 3 THEN FALSE
  ELSE LET data          == slice(buffer, 0, Len(buffer) - 2)
           receivedCrc   == readUInt16LE(buffer, Len(buffer) - 2)
           calculatedCrc == calculateCRC(data)
       IN  receivedCrc % 256 = calculatedCrc % 256

verifyCRC(buffer) ==
  IF Len(buffer) < 3 THEN FALSE
  ELSE LET data          == slice(buffer, 0, Len(buffer) - 2)
           receivedCrc   == readUInt16LE(buffer, Len(buffer) - 2)
           calculatedCrc == calculateCRC(data)
       IN  receivedCrc = calculatedCrc

-----------------------------------------------------------------------------
(* Modbus RTU codec (also the codec of the RTU-over-TCP "simple" server)   *)

RtuCreateExceptionResponse(slaveId, functionCode, exceptionCode) ==
  appendCRC(<< slaveId, OrHighBit(functionCode), exceptionCode >>)

\* RtuUnknownSlave answering exception 0x0B, as the Modbus TCP codec does
RtuUnknownSlaveException(sl, slaveId, functionCode) ==
  Outcome(RtuCreateExceptionResponse(slaveId, functionCode, 11), sl, 0)

\* slaveId not in slaves: the frame is dropped
RtuUnknownSlave(sl, slaveId, functionCode) == Outcome(NoResponse, sl, 0)

\* RtuUnsupportedFunction answering exception 0x03 instead of 0x01
RtuUnsupportedFunctionWrongCode(sl, slaveId, functionCode) ==
  Outcome(RtuCreateExceptionResponse(slaveId, functionCode, 3), sl, 0)

\* default case: exception 0x01
RtuUnsupportedFunction(sl, slaveId, functionCode) ==
  Outcome(RtuCreateExceptionResponse(slaveId, functionCode, 1), sl, 0)

\* case 0x03.  responseBuffer.writeUInt8(byteCount, 2) throws a RangeError
\* when byteCount > 255; the catch of processRequest turns it into null.
\* RtuReadHoldingRegisters taking the start address as a register number
\* that counts from 1
RtuReadHoldingRegistersOneBased(sl, slaveId, functionCode, requestBuffer) ==
  IF Len(requestBuffer) # 8 THEN Outcome(NoResponse, sl, 0)
  ELSE LET startAddr == readUInt16BE(requestBuffer, 2)
           quantity  == readUInt16BE(requestBuffer, 4)
           byteCount == quantity * 2
       IN  IF byteCount > 255 THEN Outcome(NoResponse, sl, 0)
           ELSE Outcome(appendCRC(<< slaveId, functionCode, byteCount >>
                                    \o ReadLoop(sl[slaveId], startAddr + 1, quantity)),
                        sl, 0)

RtuReadHoldingRegisters(sl, slaveId, functionCode, requestBuffer) ==
  IF Len(requestBuffer) # 8 THEN Outcome(NoResponse, sl, 0)
  ELSE LET startAddr == readUInt16BE(requestBuffer, 2)
           quantity  == readUInt16BE(requestBuffer, 4)
           byteCount == quantity * 2
       IN  IF byteCount > 255 THEN Outcome(NoResponse, sl, 0)
           ELSE Outcome(appendCRC(<< slaveId, functionCode, byteCount >>
                                    \o ReadLoop(sl[slaveId], startAddr, quantity)),
                        sl, 0)

\* RtuWriteSingleRegister answering exception 0x02 past the last register,
\* as the Modbus TCP codec does
RtuWriteSingleRegisterChecked(sl, slaveId, functionCode, requestBuffer) ==
  IF Len(requestBuffer) # 8 THEN Outcome(NoResponse, sl, 0)
  ELSE LET regAddr == readUInt16BE(requestBuffer, 2)
           value   == readUInt16BE(requestBuffer, 4)
       IN  IF regAddr < registerCount
           THEN Outcome(appendCRC(slice(requestBuffer, 0, 6)),
                        [sl EXCEPT ![slaveId] = ArrayAssign(sl[slaveId], regAddr, value)], 1)
           ELSE Outcome(RtuCreateExceptionResponse(slaveId, functionCode, 2), sl, 0)

\* RtuWriteSingleRegister calling saveSlaves() outside the range test
RtuWriteSingleRegisterAlwaysSaves(sl, slaveId, functionCode, requestBuffer) ==
  IF Len(requestBuffer) # 8 THEN Outcome(NoResponse, sl, 0)
  ELSE LET regAddr == readUInt16BE(requestBuffer, 2)
           value   == readUInt16BE(requestBuffer, 4)
       IN  IF regAddr < registerCount
           THEN Outcome(appendCRC(slice(requestBuffer, 0, 6)),
                        [sl EXCEPT ![slaveId] = ArrayAssign(sl[slaveId], regAddr, value)], 1)
           ELSE Outcome(appendCRC(slice(requestBuffer, 0, 6)), sl, 1)

\* case 0x06
RtuWriteSingleRegister(sl, slaveId, functionCode, requestBuffer) ==
  IF Len(requestBuffer) # 8 THEN Outcome(NoResponse, sl, 0)
  ELSE LET regAddr == readUInt16BE(requestBuffer, 2)
           value   == readUInt16BE(requestBuffer, 4)
       IN  IF regAddr < registerCount
           THEN Outcome(appendCRC(slice(requestBuffer, 0, 6)),
                        [sl EXCEPT ![slaveId] = ArrayAssign(sl[slaveId], regAddr, value)], 1)
           ELSE Outcome(appendCRC(slice(requestBuffer, 0, 6)), sl, 0)

\* RtuWriteMultipleRegisters assigning the values in every slave
RtuWriteMultipleRegistersBroadcast(sl, slaveId, functionCode, requestBuffer) ==
  IF Len(requestBuffer) < 9 THEN Outcome(NoResponse, sl, 0)
  ELSE LET startAddr == readUInt16BE(requestBuffer, 2)
           quantity  == readUInt16BE(requestBuffer, 4)
           byteCount == readUInt8(requestBuffer, 6)
       IN  IF byteCount # quantity * 2 \/ Len(requestBuffer) # 7 + byteCount + 2
           THEN Outcome(NoResponse, sl, 0)
           ELSE Outcome(appendCRC(<< slaveId, functionCode >>
                                    \o writeUInt16BE(startAddr) \o writeUInt16BE(quantity)),
                        [s \in DOMAIN sl |->
                            WriteLoop(sl[s], requestBuffer, 7, startAddr, quantity)],
                        1)

\* case 0x10
RtuWriteMultipleRegisters(sl, slaveId, functionCode, requestBuffer) ==
  IF Len(requestBuffer) < 9 THEN Outcome(NoResponse, sl, 0)
  ELSE LET startAddr == readUInt16BE(requestBuffer, 2)
           quantity  == readUInt16BE(requestBuffer, 4)
           byteCount == readUInt8(requestBuffer, 6)
       IN  IF byteCount # quantity * 2 \/ Len(requestBuffer) # 7 + byteCount + 2
           THEN Outcome(NoResponse, sl, 0)
           ELSE Outcome(appendCRC(<< slaveId, functionCode >>
                                    \o writeUInt16BE(startAddr) \o writeUInt16BE(quantity)),
                        [sl EXCEPT ![slaveId] =
                            WriteLoop(sl[slaveId], requestBuffer, 7, startAddr, quantity)],
                        1)

RtuProcessRequest(sl, requestBuffer) ==
  IF Len(requestBuffer) < 4 THEN Outcome(NoResponse, sl, 0)
  ELSE IF ~verifyCRC(requestBuffer) THEN Outcome(NoResponse, sl, 0)
  ELSE LET slaveId      == readUInt8(requestBuffer, 0)
           functionCode == readUInt8(requestBuffer, 1)
       IN  IF slaveId \notin DOMAIN sl THEN RtuUnknownSlave(sl, slaveId, functionCode)
           ELSE CASE functionCode = 3 ->
                       RtuReadHoldingRegisters(sl, slaveId, functionCode, requestBuffer)
                  [] functionCode = 6 ->
                       RtuWriteSingleRegister(sl, slaveId, functionCode, requestBuffer)
                  [] functionCode = 16 ->
                       RtuWriteMultipleRegisters(sl, slaveId, functionCode, requestBuffer)
                  [] OTHER ->
                       RtuUnsupportedFunction(sl, slaveId, functionCode)

-----------------------------------------------------------------------------
(* Register store mutations made by the web collaborator                   *)

\* A fresh bank: new Array(registerCount).fill(0)
FreshRegisters == [a \in 0..(registerCount - 1) |-> 0]

\* group query parameter: anything that is not 1..7 (NaN included) becomes 1
NormalizeGroup(group) == IF group < 1 \/ group > 7 THEN 1 ELSE group

\* EditLoop without the & 0xFFFF
EditLoopUnmasked(registers, body, base, count) ==
  AssignAll(registers,
            [a \in { base + i : i \in { j \in DOMAIN body : j >= 0 /\ j < count /\ ~body[j].nan } }
               |-> body[a - base].value])

\* The update loop of POST /slave/:id.  body maps the index i of a submitted
\* field reg<i> to its parsed value [nan, value]; for i in [0, count) a field
\* that is present and parsed to a number assigns value & 0xFFFF to
\* registers[base + i].
EditLoop(registers, body, base, count) ==
  AssignAll(registers,
            [a \in { base + i : i \in { j \in DOMAIN body : j >= 0 /\ j < count /\ ~body[j].nan } }
               |-> body[a - base].value % 65536])

\* POST /slave/:id : 404 for an unknown slave, otherwise the update loop of
\* the group and one awaited storage.saveSlaves().
PostSlave(sl, slaveId, groupParam, body) ==
  IF slaveId \notin DOMAIN sl THEN Outcome(NoResponse, sl, 0)
  ELSE LET group == NormalizeGroup(groupParam)
       IN  IF group = 1
           THEN Outcome(NoResponse, [sl EXCEPT ![slaveId] = EditLoop(sl[slaveId], body, 0, 6)], 1)
           ELSE Outcome(NoResponse,
                        [sl EXCEPT ![slaveId] = EditLoop(sl[slaveId], body, (group - 1) * 50, 50)], 1)

\* registers.fill(0) keeps the length of the array
Fill0(registers) == [a \in DOMAIN registers |-> 0]

\* Storage.clearSlave
clearSlave(sl, slaveId) ==
  IF slaveId \in DOMAIN sl
  THEN Outcome(NoResponse, [sl EXCEPT ![slaveId] = Fill0(sl[slaveId])], 1)
  ELSE Outcome(NoResponse, sl, 0)

\* Storage.clearAllSlaves
clearAllSlaves(sl) ==
  Outcome(NoResponse, [id \in DOMAIN sl |-> Fill0(sl[id])], 1)

-----------------------------------------------------------------------------
(* Requests offered to the emulator.  Slave 1 and the unconfigured unit    *)
(* receive the whole catalogue; the other configured slaves receive the    *)
(* basic read and write, which is what isolation between slaves needs.     *)

ReadPdu(startAddr, quantity) ==
  << 3 >> \o writeUInt16BE(startAddr) \o writeUInt16BE(quantity)

WriteSinglePdu(regAddr, value) ==
  << 6 >> \o writeUInt16BE(regAddr) \o writeUInt16BE(value)

WriteMultiplePdu(startAddr, quantity, byteCount, payload) ==
  << 16 >> \o writeUInt16BE(startAddr) \o writeUInt16BE(quantity) \o << byteCount >> \o payload

\* [transactionId][protocolId][length][unitId][PDU]
Adu(transactionId, protocolId, length, unitId, pdu) ==
  writeUInt16BE(transactionId) \o writeUInt16BE(protocolId) \o writeUInt16BE(length)
    \o << unitId >> \o pdu

WellFormedAdu(transactionId, unitId, pdu) ==
  Adu(transactionId, 0, Len(pdu) + 1, unitId, pdu)

\* [unitId][PDU][crcLow][crcHigh]
RtuAdu(unitId, pdu) == appendCRC(<< unitId >> \o pdu)

\* a frame with its last CRC byte incremented by 1
CorruptCrc(frame) == [frame EXCEPT ![Len(frame)] = (frame[Len(frame)] + 1) % 256]

\* PDUs offered over Modbus TCP to slave 1
FullPdus ==
  { ReadPdu(3, 1), ReadPdu(498, 3), ReadPdu(400, 125), ReadPdu(3, 0), ReadPdu(3, 126),
    << 3, 0, 3 >>,
    WriteSinglePdu(3, 43981), WriteSinglePdu(500, 43981), << 6, 0, 3, 171 >>,
    WriteMultiplePdu(498, 3, 6, << 17, 17, 34, 34, 51, 51 >>),
    WriteMultiplePdu(3, 1, 2, << 171, 205 >>),
    WriteMultiplePdu(500, 1, 2, << 171, 205 >>),
    WriteMultiplePdu(3, 0, 0, << >>),
    WriteMultiplePdu(3, 2, 2, << 171, 205 >>),
    WriteMultiplePdu(3, 1, 2, << 171 >>),
    WriteMultiplePdu(3, 1, 2, << 171, 205, 12 >>),
    << 16, 0, 3, 0, 1 >>,
    << 1, 0, 0, 0, 1 >>, << 131, 2 >>, << 43 >> }

\* PDUs offered over the serial link to slave 1
SerialPdus ==
  { ReadPdu(3, 1), ReadPdu(498, 3), ReadPdu(3, 0), ReadPdu(3, 128),
    WriteSinglePdu(3, 43981), WriteSinglePdu(500, 43981),
    WriteMultiplePdu(498, 3, 6, << 17, 17, 34, 34, 51, 51 >>),
    WriteMultiplePdu(3, 1, 2, << 171, 205 >>),
    WriteMultiplePdu(500, 1, 2, << 171, 205 >>),
    WriteMultiplePdu(3, 0, 0, << >>),
    WriteMultiplePdu(3, 2, 2, << 171, 205 >>),
    WriteMultiplePdu(3, 1, 2, << 171, 205, 12 >>),
    << 1, 0, 0, 0, 1 >>, << 131, 2 >> }

BasicPdus == { ReadPdu(3, 1), WriteSinglePdu(3, 43981) }

UnknownUnitPdus ==
  { ReadPdu(3, 1), WriteSinglePdu(3, 43981), WriteMultiplePdu(3, 1, 2, << 171, 205 >>),
    << 1, 0, 0, 0, 1 >>, << 131, 2 >>, << 3 >> }

TcpFrames ==
  { WellFormedAdu(258, 1, p) : p \in FullPdus }
    \cup { WellFormedAdu(258, s, p) : s \in SLAVE_IDS \ {1}, p \in BasicPdus }
    \cup { WellFormedAdu(258, UnknownUnit, p) : p \in UnknownUnitPdus }
    \cup { WellFormedAdu(65534, 1, ReadPdu(3, 1)),
           Adu(258, 1, 6, 1, WriteSinglePdu(3, 43981)),
           Adu(258, 1, 6, UnknownUnit, ReadPdu(3, 1)),
           Adu(258, 256, 9, 1, WriteMultiplePdu(3, 1, 2, << 171, 205 >>)),
           Adu(258, 0, 1, 1, << >>),
           Adu(258, 0, 7, 1, WriteSinglePdu(3, 43981)),
           Adu(258, 0, 2, 1, WriteSinglePdu(3, 43981)),
           Adu(258, 0, 0, 1, ReadPdu(3, 1)) }

\* The other slaves are only read over the serial link
RtuFrames ==
  { RtuAdu(1, p) : p \in SerialPdus }
    \cup { RtuAdu(s, ReadPdu(3, 1)) : s \in SLAVE_IDS \ {1} }
    \cup { RtuAdu(UnknownUnit, ReadPdu(3, 1)),
           RtuAdu(UnknownUnit, WriteSinglePdu(3, 43981)),
           RtuAdu(UnknownUnit, << 1, 0, 0, 0, 1 >>),
           CorruptCrc(RtuAdu(1, WriteSinglePdu(3, 43981))),
           CorruptCrc(RtuAdu(1, ReadPdu(3, 1))),
           RtuAdu(1, ReadPdu(3, 1) \o << 0 >>),
           << 1, 3, 0 >> }

\* The simple server takes whatever one read event delivers: buffers the
\* serial framer would drop for their length, and regular traffic.
SimpleFrames ==
  { RtuAdu(1, << 131, 2 >>), RtuAdu(UnknownUnit, << 3 >>), << 1, 3, 0 >>,
    RtuAdu(1, ReadPdu(498, 3)),
    RtuAdu(1, WriteSinglePdu(3, 43981)),
    RtuAdu(1, WriteSinglePdu(500, 43981)),
    CorruptCrc(RtuAdu(1, WriteSinglePdu(3, 43981))),
    RtuAdu(UnknownUnit, ReadPdu(3, 1)) }

Field(i, v) == [k \in {i} |-> [nan |-> FALSE, value |-> v]]

NaNField(i) == [k \in {i} |-> [nan |-> TRUE, value |-> 0]]

WebRequest(slaveId, group, body) == [slaveId |-> slaveId, group |-> group, body |-> body]

NoWebRequest == WebRequest(0, 0, << >>)

WebRequests ==
  { WebRequest(1, 1, Field(3, -21555)),
    WebRequest(1, 7, Field(49, -21555)),
    WebRequest(1, 8, Field(3, 109517)),
    WebRequest(1, 1, NaNField(3)),
    WebRequest(1, 1, Field(49, 7)),
    WebRequest(UnknownUnit, 1, Field(3, 7)) }

-----------------------------------------------------------------------------
(* State                                                                   *)

VARIABLES
  slaves,    \* storage.slaves: slave id -> register array
  op,        \* the handler that ran last
  request,   \* the frame it was given (Modbus handlers)
  web,       \* the form it was given (web handlers)
  response,  \* the bytes it wrote back, NoResponse when it wrote nothing
  before,    \* storage.slaves when the handler started
  saves,     \* storage.saveSlaves() calls the handler dispatched
  written,   \* history: <<s, a, v>> for each Write Single Register of v to
             \* (s, a) that was accepted and not touched since
  twin,      \* what the RTU codec returns for the PDU of the request from
             \* the store `before`, when the handler ran both codecs
  crcData,     \* CRC engine: the byte sequence given to appendCRC
  crcFrame,    \* CRC engine: the bytes on the line
  crcStep,     \* CRC engine: what was done last
  crcVerified, \* CRC engine: the result of verifyCRC
  pending,     \* persistence: the snapshots of saveSlaves() calls whose
               \* writeFile has not completed, in dispatch order
  disk,        \* persistence: the snapshot in the data file, if any
  port,        \* RTU transport: this.port, 0 (null) or a handle
  handles,     \* RTU transport: the state of each SerialPort object created:
               \* "opening", "open", "failed", "closing" or "closed"
  buffer,      \* RTU transport: this.buffer, the bytes accumulated
  frameTimeout,\* RTU transport: this.frameTimeout, 0 (null) or the timer
               \* armed last (the n-th 'data' event arms timer n)
  timers,      \* RTU transport: the silence timers that are pending
  serialOut,   \* RTU transport: the responses written to the serial port
  arrivals,    \* RTU transport: number of 'data' events so far
  window,      \* history: the chunks that arrived since the silence timer
               \* fired last (or was last found not pending)
  stamps,      \* history: the 'data' events whose bytes are in this.buffer
  handed,      \* history: the buffers handed to processRequest, in order,
               \* each with the channel it came from (0 for the serial
               \* link, c for socket c)
  stale,       \* history: the 'data' events whose bytes were in this.buffer
               \* when stop() ran last
  rtuCalls,    \* history: start / stop / restart calls, delayed starts and
               \* failed opens, in order
  rtuRestartTimers, \* RTU transport: pending settle timers of restart()
  server,      \* TCP transport: this.server, 0 (null) or a server
  servers,     \* TCP transport: the state of each net.Server created:
               \* "listening", "failed" or "closed"
  sockets,     \* TCP transport: the connections accepted, with what was
               \* written to each
  tcpCalls,    \* history: start / stop / restart calls and delayed starts
  tcpRestartTimers \* TCP transport: pending settle timers of restart()

storeVars == << slaves, op, request, web, response, before, saves, written, twin >>

crcVars == << crcData, crcFrame, crcStep, crcVerified >>

persistVars == << pending, disk >>

rtuControlVars == << stale, rtuCalls, rtuRestartTimers >>

rtuFramerVars == << port, handles, buffer, frameTimeout, timers, serialOut, arrivals,
                   window, stamps >>

rtuVars == << rtuFramerVars, handed, rtuControlVars >>

tcpVars == << server, servers, sockets, tcpCalls, tcpRestartTimers >>

\* what the codec-level handlers leave alone
restVars == << crcVars, persistVars, rtuVars, tcpVars >>

vars == << storeVars, crcVars, persistVars, rtuVars, tcpVars >>

\* Where the wire format puts unit id and PDU, per transport
UnitOf(kind, frame) == IF kind = "tcp" THEN frame[7] ELSE frame[1]

PduOf(kind, frame) ==
  IF kind = "tcp" THEN SubSeq(frame, 8, Len(frame)) ELSE SubSeq(frame, 2, Len(frame) - 2)

\* The function-code byte of a response
ResponseCode(kind, resp) == IF kind = "tcp" THEN resp[8] ELSE resp[2]

\* A response that is neither absent nor an exception
IsNormal(kind, resp) == resp # NoResponse /\ ResponseCode(kind, resp) < 128

\* The (slave, address) pairs a request names as write targets
Targets(kind, frame) ==
  LET pdu == PduOf(kind, frame)
  IN  IF Len(pdu) >= 5 /\ pdu[1] = 6
      THEN { << UnitOf(kind, frame), readUInt16BE(pdu, 1) >> }
      ELSE IF Len(pdu) >= 5 /\ pdu[1] = 16
      THEN { << UnitOf(kind, frame), readUInt16BE(pdu, 1) + i >> :
                i \in 0..(readUInt16BE(pdu, 3) - 1) }
      ELSE {}

\* History after a Modbus handler answered resp to frame
WrittenAfterFrame(kind, frame, resp) ==
  IF ~IsNormal(kind, resp) THEN written
  ELSE LET pdu  == PduOf(kind, frame)
           kept == { t \in written : << t[1], t[2] >> \notin Targets(kind, frame) }
       IN  IF pdu[1] = 6 /\ readUInt16BE(pdu, 1) < registerCount
           THEN kept \cup { << UnitOf(kind, frame), readUInt16BE(pdu, 1), readUInt16BE(pdu, 3) >> }
           ELSE kept

\* The (slave, address) pairs a form names: the submitted fields that fall
\* in the window of its group
WebTargets(r) ==
  LET group == NormalizeGroup(r.group)
      base  == IF group = 1 THEN 0 ELSE (group - 1) * 50
      count == IF group = 1 THEN 6 ELSE 50
  IN  { << r.slaveId, base + i >> : i \in { k \in DOMAIN r.body : k < count } }

\* storage.initialize(SLAVE_IDS, REGISTER_COUNT): every slave zero-filled
\* only one codec ran
NoTwin == [response |-> NoResponse, slaves |-> << >>, saves |-> 0]

InitStore ==
  /\ slaves = [id \in SLAVE_IDS |-> FreshRegisters]
  /\ op = "init"
  /\ request = << >>
  /\ web = NoWebRequest
  /\ response = NoResponse
  /\ before = [id \in SLAVE_IDS |-> FreshRegisters]
  /\ saves = 0
  /\ written = {}
  /\ twin = NoTwin

\* no CRC computation under way
CrcIdle ==
  /\ crcData = << >>
  /\ crcFrame = << >>
  /\ crcStep = "idle"
  /\ crcVerified = FALSE

\* no saveSlaves() in flight, no data file written yet
PersistIdle ==
  /\ pending = << >>
  /\ disk = << >>

\* new ModbusRTU(storage): no port, empty buffer, no timer
RtuIdle ==
  /\ port = 0
  /\ handles = << >>
  /\ buffer = << >>
  /\ frameTimeout = 0
  /\ timers = { }
  /\ serialOut = << >>
  /\ arrivals = 0
  /\ window = << >>
  /\ stamps = << >>
  /\ handed = << >>
  /\ stale = { }
  /\ rtuCalls = << >>
  /\ rtuRestartTimers = 0

\* new ModbusTCP(storage): no server
TcpIdle ==
  /\ server = 0
  /\ servers = << >>
  /\ sockets = << >>
  /\ tcpCalls = << >>
  /\ tcpRestartTimers = 0

\* the channel of the serial link in handed; socket c is channel c
SerialLink == 0

\* an entry of handed that a socket 'data' handler made
IsTcpEntry(e) == e.channel # SerialLink

\* an entry of handed that the silence timer callback made
IsRtuEntry(e) == e.channel = SerialLink

\* start(), stop() and restart() are the calls of the control surface
IsControlCall(c) == c \in { "start", "stop", "restart" }

Init == InitStore /\ CrcIdle /\ PersistIdle /\ RtuIdle /\ TcpIdle

\* What every handler leaves in the state
Ran(kind, frame, form, out) ==
  /\ op' = kind
  /\ request' = frame
  /\ web' = form
  /\ before' = slaves
  /\ slaves' = out.slaves
  /\ response' = out.response
  /\ saves' = out.saves
  /\ twin' = NoTwin

\* Modbus TCP socket 'data' handler: one read event is one ADU
TcpData(frame) ==
  \E out \in { TcpProcessRequest(slaves, frame) } :
      /\ Ran("tcp", frame, NoWebRequest, out)
      /\ written' = WrittenAfterFrame("tcp", frame, out.response)
      /\ UNCHANGED restVars

\* RTU silence timer firing on an accumulated buffer, port open: buffers
\* shorter than 8 bytes are not handed to the codec
RtuFrame(frame) ==
  \E out \in { IF Len(frame) >= 8 THEN RtuProcessRequest(slaves, frame)
                ELSE Outcome(NoResponse, slaves, 0) } :
      /\ Ran("rtu", frame, NoWebRequest, out)
      /\ written' = WrittenAfterFrame("rtu", frame, out.response)
      /\ UNCHANGED restVars

\* RTU-over-TCP socket 'data' handler of the simple server
SimpleData(frame) ==
  \E out \in { RtuProcessRequest(slaves, frame) } :
      /\ Ran("simple", frame, NoWebRequest, out)
      /\ written' = WrittenAfterFrame("simple", frame, out.response)
      /\ UNCHANGED restVars

\* POST /slave/:id
WebEdit(r) ==
  /\ \E out \in { PostSlave(slaves, r.slaveId, r.group, r.body) } : Ran("web", << >>, r, out)
  /\ written' = { t \in written : << t[1], t[2] >> \notin WebTargets(r) }
  /\ UNCHANGED restVars

\* POST /slave/:id/clear
WebClear(slaveId) ==
  /\ \E out \in { clearSlave(slaves, slaveId) } :
        Ran("clear", << >>, WebRequest(slaveId, 0, << >>), out)
  /\ written' = { t \in written : t[1] # slaveId }
  /\ UNCHANGED restVars

\* POST /config/clear-all
WebClearAll ==
  /\ \E out \in { clearAllSlaves(slaves) } : Ran("clearAll", << >>, NoWebRequest, out)
  /\ written' = {}
  /\ UNCHANGED restVars

Next ==
  \/ \E frame \in TcpFrames : TcpData(frame)
  \/ \E frame \in RtuFrames : RtuFrame(frame)
  \/ \E frame \in SimpleFrames : SimpleData(frame)
  \/ \E r \in WebRequests : WebEdit(r)
  \/ \E slaveId \in SLAVE_IDS \cup {UnknownUnit} : WebClear(slaveId)
  \/ WebClearAll

Spec == Init /\ [][Next]_vars

-----------------------------------------------------------------------------
(* Persistence: the write cases call storage.saveSlaves() without awaiting *)
(* it.  saveSlaves serialises the store when it is called and its          *)
(* writeFile completes later, in any order.                                *)

MaxPending == 2

PersistTcpFrames ==
  { WellFormedAdu(258, 1, p) :
      p \in { ReadPdu(3, 1), WriteSinglePdu(3, 43981), WriteSinglePdu(500, 43981),
              WriteMultiplePdu(498, 3, 6, << 17, 17, 34, 34, 51, 51 >>),
              WriteMultiplePdu(3, 2, 2, << 171, 205 >>),
              << 1, 0, 0, 0, 1 >> } }
    \cup { WellFormedAdu(258, UnknownUnit, WriteSinglePdu(3, 43981)),
           Adu(258, 1, 6, 1, WriteSinglePdu(3, 43981)) }

PersistRtuFrames ==
  { RtuAdu(1, p) :
      p \in { ReadPdu(3, 1), WriteSinglePdu(4, 4660), WriteSinglePdu(500, 43981),
              WriteMultiplePdu(500, 1, 2, << 171, 205 >>),
              WriteMultiplePdu(3, 2, 2, << 171, 205 >>),
              << 1, 0, 0, 0, 1 >> } }
    \cup { RtuAdu(UnknownUnit, WriteSinglePdu(3, 43981)),
           CorruptCrc(RtuAdu(1, WriteSinglePdu(3, 43981))) }

\* storage.saveSlaves() called n times on the store sl: each call
\* serialises sl (JSON.stringify) before its writeFile is started
Dispatched(sl, n) == [i \in 1..n |-> sl]

\* the sequence without its i-th element
RemoveAt(seq, i) == SubSeq(seq, 1, i - 1) \o SubSeq(seq, i + 1, Len(seq))

\* Modbus TCP socket 'data' handler, with the saveSlaves() it dispatches
PersistTcpData(frame) ==
  \E out \in { TcpProcessRequest(slaves, frame) } :
      /\ Len(pending) + out.saves <= MaxPending
      /\ Ran("tcp", frame, NoWebRequest, out)
      /\ written' = WrittenAfterFrame("tcp", frame, out.response)
      /\ pending' = pending \o Dispatched(out.slaves, out.saves)
      /\ UNCHANGED << disk, crcVars, rtuVars, tcpVars >>

\* RTU silence timer on a complete buffer, with the saveSlaves() it dispatches
PersistRtuFrame(frame) ==
  \E out \in { IF Len(frame) >= 8 THEN RtuProcessRequest(slaves, frame)
                ELSE Outcome(NoResponse, slaves, 0) } :
      /\ Len(pending) + out.saves <= MaxPending
      /\ Ran("rtu", frame, NoWebRequest, out)
      /\ written' = WrittenAfterFrame("rtu", frame, out.response)
      /\ pending' = pending \o Dispatched(out.slaves, out.saves)
      /\ UNCHANGED << disk, crcVars, rtuVars, tcpVars >>

\* the writeFile of the i-th saveSlaves() in flight completes
SaveSlavesDone(i) ==
  /\ i \in DOMAIN pending
  /\ disk' = << pending[i] >>
  /\ pending' = RemoveAt(pending, i)
  /\ op' = "saved"
  /\ request' = << >>
  /\ web' = NoWebRequest
  /\ response' = NoResponse
  /\ before' = slaves
  /\ saves' = 0
  /\ twin' = NoTwin
  /\ UNCHANGED << slaves, written, crcVars, rtuVars, tcpVars >>

NextPersist ==
  \/ \E frame \in PersistTcpFrames : PersistTcpData(frame)
  \/ \E frame \in PersistRtuFrames : PersistRtuFrame(frame)
  \/ \E i \in 1..MaxPending : SaveSlavesDone(i)

SpecPersist == Init /\ [][NextPersist]_vars

-----------------------------------------------------------------------------
(* RTU transport: the serial port delivers chunks of bytes; each 'data'    *)
(* event restarts the 50 ms silence timer, whose callback hands the        *)
(* accumulated buffer to the codec.  A serial handle is a SerialPort       *)
(* object; handles[h] is its state and this.port is 0 (null) or the handle *)
(* the transport holds.                                                    *)

MaxArrivals == 4

\* the chunks a 'data' event may deliver: whole request frames, a request
\* frame in two pieces, a frame with a wrong CRC, a read on which the
\* codec throws and catches
RtuChunks ==
  { RtuAdu(1, ReadPdu(3, 1)),
    RtuAdu(1, ReadPdu(3, 128)),
    RtuAdu(1, WriteSinglePdu(3, 43981)),
    SubSeq(RtuAdu(1, WriteSinglePdu(4, 4660)), 1, 3),
    SubSeq(RtuAdu(1, WriteSinglePdu(4, 4660)), 4, 8),
    CorruptCrc(RtuAdu(1, ReadPdu(3, 1))) }

\* Buffer.concat that forgets what was accumulated
BufferConcatDropsOld(buf, data) == data

\* Buffer.concat([this.buffer, data])
BufferConcat(buf, data) == buf \o data

\* handle.isOpen
isOpen(h) == handles[h] = "open"

\* this.port && this.port.isOpen
PortIsOpen == port # 0 /\ isOpen(port)

\* the serial port is open: start(config) was called and the open succeeded
InitRtu ==
  /\ InitStore
  /\ CrcIdle
  /\ PersistIdle
  /\ TcpIdle
  /\ port = 1
  /\ handles = << "open" >>
  /\ buffer = << >>
  /\ frameTimeout = 0
  /\ timers = { }
  /\ serialOut = << >>
  /\ arrivals = 0
  /\ window = << >>
  /\ stamps = << >>
  /\ handed = << >>
  /\ stale = { }
  /\ rtuCalls = << "start" >>
  /\ rtuRestartTimers = 0

\* what a transport event that is not a frame leaves in the handler record
Lifecycle(kind) ==
  /\ op' = kind
  /\ request' = << >>
  /\ response' = NoResponse
  /\ before' = slaves
  /\ saves' = 0
  /\ twin' = NoTwin
  /\ UNCHANGED << slaves, web, written >>

\* a data handler that arms the new timer and leaves the old one pending
TimersAfterDataNoClear(pendingTimers, old, new) == pendingTimers \cup { new }

\* if (this.frameTimeout) clearTimeout(this.frameTimeout); then setTimeout
TimersAfterData(pendingTimers, old, new) == (pendingTimers \ { old }) \cup { new }

\* port 'data' handler of an open handle: cancel the timer, accumulate,
\* arm the timer.  The timer armed by the n-th 'data' event is timer n.
RtuPortData(data) ==
  /\ \E h \in DOMAIN handles : isOpen(h)
  /\ arrivals < MaxArrivals
  /\ buffer' = BufferConcat(buffer, data)
  /\ timers' = TimersAfterData(timers, frameTimeout, arrivals + 1)
  /\ frameTimeout' = arrivals + 1
  /\ arrivals' = arrivals + 1
  /\ stamps' = Append(stamps, arrivals + 1)
  /\ window' = IF frameTimeout \in timers THEN Append(window, data) ELSE << data >>
  /\ op' = "data"
  /\ request' = data
  /\ response' = NoResponse
  /\ before' = slaves
  /\ saves' = 0
  /\ twin' = NoTwin
  /\ UNCHANGED << slaves, web, written, port, handles, serialOut, handed,
                  rtuControlVars, crcVars, persistVars, tcpVars >>

\* a timer callback that empties the buffer only after handing it on
BufferAfterTimeoutKeepsShort(buf) == IF Len(buf) >= 8 THEN << >> ELSE buf

\* this.buffer = Buffer.alloc(0), the last statement of the timer callback
BufferAfterTimeout(buf) == << >>

\* this.port.write(response)
PortWrite(out, resp) == Append(out, resp)

\* frameTimeout callback of timer t: a buffer of at least 8 bytes goes to
\* the codec, the response is written if there is one and this.port is
\* open, and the buffer is emptied
RtuFrameTimeout(t) ==
  /\ t \in timers
  /\ \E out \in { IF Len(buffer) >= 8 THEN RtuProcessRequest(slaves, buffer)
                   ELSE Outcome(NoResponse, slaves, 0) } :
        LET sent == IF out.response # NoResponse /\ PortIsOpen
                    THEN out.response ELSE NoResponse
        IN  /\ Ran("rtu", buffer, NoWebRequest, [out EXCEPT !.response = sent])
            /\ written' = WrittenAfterFrame("rtu", buffer, out.response)
            /\ serialOut' = IF sent # NoResponse THEN PortWrite(serialOut, sent) ELSE serialOut
  /\ handed' = IF Len(buffer) >= 8
               THEN Append(handed, [channel |-> SerialLink, buffer |-> buffer,
                                    stamps |-> stamps, timer |-> t])
               ELSE handed
  /\ buffer' = BufferAfterTimeout(buffer)
  /\ stamps' = << >>
  /\ timers' = timers \ { t }
  /\ UNCHANGED << port, handles, frameTimeout, arrivals, window,
                  rtuControlVars, crcVars, persistVars, tcpVars >>

\* port 'close' event of an open handle (the device went away):
\* this.port = null
RtuPortClose ==
  /\ \E h \in DOMAIN handles :
        /\ isOpen(h)
        /\ handles' = [handles EXCEPT ![h] = "closed"]
  /\ port' = 0
  /\ Lifecycle("close")
  /\ UNCHANGED << buffer, frameTimeout, timers, serialOut, arrivals, window, stamps,
                  handed, rtuControlVars, crcVars, persistVars, tcpVars >>

NextRtu ==
  \/ \E data \in RtuChunks : RtuPortData(data)
  \/ \E t \in 1..MaxArrivals : RtuFrameTimeout(t)
  \/ RtuPortClose

SpecRtu == InitRtu /\ [][NextRtu]_vars

-----------------------------------------------------------------------------
(* RTU transport control: start, stop and restart, the asynchronous open   *)
(* and close of the handles, the settle delay of restart.                  *)

MaxControls == 2

\* what arrives on the serial line here: a whole write frame, the first
\* three bytes of a frame
RtuControlChunks ==
  { RtuAdu(1, WriteSinglePdu(3, 43981)),
    SubSeq(RtuAdu(1, WriteSinglePdu(4, 4660)), 1, 3) }

\* if (this.port && this.port.isOpen) return
StartReturnsEarly == PortIsOpen

\* body of start(config): new SerialPort({autoOpen: false}) and
\* this.port.open(callback) unless the port is already open
StartBody ==
  IF StartReturnsEarly
  THEN UNCHANGED << port, handles >>
  ELSE /\ handles' = Append(handles, "opening")
       /\ port' = Len(handles) + 1

\* stop() does not assign this.buffer
BufferAfterStop(buf) == buf

\* body of stop(): clear the silence timer; close the port if it is open,
\* drop the reference otherwise
StopBody ==
  /\ timers' = timers \ { frameTimeout }
  /\ frameTimeout' = 0
  /\ IF PortIsOpen
     THEN /\ handles' = [handles EXCEPT ![port] = "closing"]
          /\ port' = port
     ELSE /\ handles' = handles
          /\ port' = 0
  /\ buffer' = BufferAfterStop(buffer)
  /\ stamps' = IF buffer' = << >> THEN << >> ELSE stamps
  /\ stale' = { stamps'[i] : i \in DOMAIN stamps' }

\* start(config)
RtuStart ==
  /\ Len(SelectSeq(rtuCalls, IsControlCall)) < MaxControls
  /\ StartBody
  /\ rtuCalls' = Append(rtuCalls, "start")
  /\ Lifecycle("start")
  /\ UNCHANGED << buffer, frameTimeout, timers, serialOut, arrivals, window, stamps,
                  handed, stale, rtuRestartTimers, crcVars, persistVars, tcpVars >>

\* the open callback without an error: the handle is open.  The device is
\* opened exclusively, so no other handle holds it.
RtuOpened(h) ==
  /\ h \in DOMAIN handles
  /\ handles[h] = "opening"
  /\ \A g \in DOMAIN handles : handles[g] \notin { "open", "closing" }
  /\ handles' = [handles EXCEPT ![h] = "open"]
  /\ Lifecycle("opened")
  /\ UNCHANGED << port, buffer, frameTimeout, timers, serialOut, arrivals, window,
                  stamps, handed, rtuControlVars, crcVars, persistVars, tcpVars >>

\* open callback, if (err): this.port = null
PortAfterOpenError(held) == 0

\* the open callback with an error: this.port = null
RtuOpenFailed(h) ==
  /\ h \in DOMAIN handles
  /\ handles[h] = "opening"
  /\ handles' = [handles EXCEPT ![h] = "failed"]
  /\ port' = PortAfterOpenError(port)
  /\ rtuCalls' = Append(rtuCalls, "openFailed")
  /\ Lifecycle("openFailed")
  /\ UNCHANGED << buffer, frameTimeout, timers, serialOut, arrivals, window,
                  stamps, handed, stale, rtuRestartTimers, crcVars, persistVars, tcpVars >>

\* stop()
RtuStop ==
  /\ Len(SelectSeq(rtuCalls, IsControlCall)) < MaxControls
  /\ StopBody
  /\ rtuCalls' = Append(rtuCalls, "stop")
  /\ Lifecycle("stop")
  /\ UNCHANGED << serialOut, arrivals, window, handed, rtuRestartTimers,
                  crcVars, persistVars, tcpVars >>

\* the close callback and the 'close' event of a handle stop() closed:
\* this.port = null
RtuClosed(h) ==
  /\ h \in DOMAIN handles
  /\ handles[h] = "closing"
  /\ handles' = [handles EXCEPT ![h] = "closed"]
  /\ port' = 0
  /\ Lifecycle("closed")
  /\ UNCHANGED << buffer, frameTimeout, timers, serialOut, arrivals, window,
                  stamps, handed, rtuControlVars, crcVars, persistVars, tcpVars >>

\* restart(config): stop(), then start(config) after the settle delay
RtuRestart ==
  /\ Len(SelectSeq(rtuCalls, IsControlCall)) < MaxControls
  /\ StopBody
  /\ rtuRestartTimers' = rtuRestartTimers + 1
  /\ rtuCalls' = Append(rtuCalls, "restart")
  /\ Lifecycle("restart")
  /\ UNCHANGED << serialOut, arrivals, window, handed, crcVars, persistVars, tcpVars >>

\* the settle timer of a restart fires: start(config).  A close that
\* stop() requested has completed within the delay.
RtuDelayedStart ==
  /\ rtuRestartTimers > 0
  /\ \A g \in DOMAIN handles : handles[g] # "closing"
  /\ StartBody
  /\ rtuRestartTimers' = rtuRestartTimers - 1
  /\ rtuCalls' = Append(rtuCalls, "delayedStart")
  /\ Lifecycle("delayedStart")
  /\ UNCHANGED << buffer, frameTimeout, timers, serialOut, arrivals, window, stamps,
                  handed, stale, crcVars, persistVars, tcpVars >>

NextRtuControl ==
  \/ RtuStart
  \/ \E h \in 1..(2 * MaxControls) : RtuOpened(h)
  \/ \E h \in 1..(2 * MaxControls) : RtuOpenFailed(h)
  \/ RtuStop
  \/ \E h \in 1..(2 * MaxControls) : RtuClosed(h)
  \/ RtuRestart
  \/ RtuDelayedStart
  \/ \E data \in RtuControlChunks : RtuPortData(data)
  \/ \E t \in 1..MaxArrivals : RtuFrameTimeout(t)

SpecRtuControl == Init /\ [][NextRtuControl]_vars

-----------------------------------------------------------------------------
(* TCP transport control: start, stop and restart of the listening server, *)
(* the connections it accepted and the frames that arrive on them.         *)
(* servers[s] is the state of a net.Server object and this.server is 0     *)
(* (null) or the server the transport holds.                               *)

MaxTcpFrames == 3

MaxSockets == 2

\* the frames a client sends: two writes of one register, a read of it
TcpControlFrames ==
  { WellFormedAdu(1, 1, WriteSinglePdu(3, 43981)),
    WellFormedAdu(2, 1, WriteSinglePdu(3, 4660)),
    WellFormedAdu(3, 1, ReadPdu(3, 1)) }

\* server 'error' handler: it logs, and leaves this.server as it is
ServerAfterListenError(held) == held

\* body of start(port): net.createServer and server.listen(port) unless a
\* server is held; the bind succeeds ('listening') or fails ('error',
\* EADDRINUSE) before any other handler runs
TcpStartBody(bound) ==
  IF server # 0
  THEN UNCHANGED << server, servers >>
  ELSE /\ servers' = Append(servers, IF bound THEN "listening" ELSE "failed")
       /\ server' = IF bound THEN Len(servers) + 1
                    ELSE ServerAfterListenError(Len(servers) + 1)

\* server.close() stops accepting; the connections stay as they are
SocketsAfterStop(socks) == socks

\* body of stop(): server.close() and this.server = null if a server is held
TcpStopBody ==
  IF server # 0
  THEN /\ servers' = [servers EXCEPT ![server] = "closed"]
       /\ server' = 0
       /\ sockets' = SocketsAfterStop(sockets)
  ELSE UNCHANGED << server, servers, sockets >>

\* start(port)
TcpStart(bound) ==
  /\ Len(SelectSeq(tcpCalls, IsControlCall)) < MaxControls
  /\ TcpStartBody(bound)
  /\ tcpCalls' = Append(tcpCalls, "start")
  /\ Lifecycle("start")
  /\ UNCHANGED << sockets, tcpRestartTimers, crcVars, persistVars, rtuVars >>

\* a client connects to the listening server: the connection callback
\* registers the socket's handlers
TcpConnect(s) ==
  /\ s \in DOMAIN servers
  /\ servers[s] = "listening"
  /\ Len(sockets) < MaxSockets
  /\ sockets' = Append(sockets, [server |-> s, open |-> TRUE, out |-> << >>])
  /\ Lifecycle("connect")
  /\ UNCHANGED << server, servers, tcpCalls, tcpRestartTimers,
                  crcVars, persistVars, rtuVars >>

\* socket.write that puts the response in front of what was written before
SocketWriteInFront(out, resp) == << resp >> \o out

\* socket.write(response)
SocketWrite(out, resp) == Append(out, resp)

\* socket 'data' handler of connection c: the chunk goes to the codec and
\* the response, if any, is written to the same socket
TcpSocketData(c, frame) ==
  /\ c \in DOMAIN sockets
  /\ sockets[c].open
  /\ Len(SelectSeq(handed, IsTcpEntry)) < MaxTcpFrames
  /\ \E out \in { TcpProcessRequest(slaves, frame) } :
        /\ Ran("tcp", frame, NoWebRequest, out)
        /\ written' = WrittenAfterFrame("tcp", frame, out.response)
        /\ sockets' = IF out.response # NoResponse
                      THEN [sockets EXCEPT ![c].out = SocketWrite(@, out.response)]
                      ELSE sockets
  /\ handed' = Append(handed, [channel |-> c, buffer |-> frame,
                               stamps |-> << >>, timer |-> 0])
  /\ UNCHANGED << server, servers, tcpCalls, tcpRestartTimers,
                  crcVars, persistVars, rtuFramerVars, rtuControlVars >>

\* stop()
TcpStop ==
  /\ Len(SelectSeq(tcpCalls, IsControlCall)) < MaxControls
  /\ TcpStopBody
  /\ tcpCalls' = Append(tcpCalls, "stop")
  /\ Lifecycle("stop")
  /\ UNCHANGED << tcpRestartTimers, crcVars, persistVars, rtuVars >>

\* restart(port): stop(), then start(port) after the settle delay
TcpRestart ==
  /\ Len(SelectSeq(tcpCalls, IsControlCall)) < MaxControls
  /\ TcpStopBody
  /\ tcpRestartTimers' = tcpRestartTimers + 1
  /\ tcpCalls' = Append(tcpCalls, "restart")
  /\ Lifecycle("restart")
  /\ UNCHANGED << crcVars, persistVars, rtuVars >>

\* the settle timer of a restart fires: start(port)
TcpDelayedStart(bound) ==
  /\ tcpRestartTimers > 0
  /\ TcpStartBody(bound)
  /\ tcpRestartTimers' = tcpRestartTimers - 1
  /\ tcpCalls' = Append(tcpCalls, "delayedStart")
  /\ Lifecycle("delayedStart")
  /\ UNCHANGED << sockets, crcVars, persistVars, rtuVars >>

NextTcpControl ==
  \/ \E bound \in BOOLEAN : TcpStart(bound)
  \/ \E s \in 1..(2 * MaxControls) : TcpConnect(s)
  \/ \E c \in 1..MaxSockets, frame \in TcpControlFrames : TcpSocketData(c, frame)
  \/ TcpStop
  \/ TcpRestart
  \/ \E bound \in BOOLEAN : TcpDelayedStart(bound)

SpecTcpControl == Init /\ [][NextTcpControl]_vars

-----------------------------------------------------------------------------
(* Both transports running: the serial port is open and the TCP server is  *)
(* listening; frames arrive on the serial line and on TCP connections.     *)

MaxChannelEvents == 4

InitChannels ==
  /\ InitStore
  /\ CrcIdle
  /\ PersistIdle
  /\ port = 1
  /\ handles = << "open" >>
  /\ buffer = << >>
  /\ frameTimeout = 0
  /\ timers = { }
  /\ serialOut = << >>
  /\ arrivals = 0
  /\ window = << >>
  /\ stamps = << >>
  /\ handed = << >>
  /\ stale = { }
  /\ rtuCalls = << "start" >>
  /\ rtuRestartTimers = 0
  /\ server = 1
  /\ servers = << "listening" >>
  /\ sockets = << >>
  /\ tcpCalls = << "start" >>
  /\ tcpRestartTimers = 0

\* 'data' events so far, on the serial port and on the sockets
ChannelEvents == arrivals + Len(SelectSeq(handed, IsTcpEntry))

\* a 'data' event of the serial port
ChannelsPortData(data) ==
  /\ ChannelEvents < MaxChannelEvents
  /\ RtuPortData(data)

\* a 'data' event of socket c
ChannelsSocketData(c, frame) ==
  /\ ChannelEvents < MaxChannelEvents
  /\ TcpSocketData(c, frame)

NextChannels ==
  \/ \E s \in 1..(2 * MaxControls) : TcpConnect(s)
  \/ \E c \in 1..MaxSockets, frame \in TcpControlFrames : ChannelsSocketData(c, frame)
  \/ \E data \in RtuControlChunks : ChannelsPortData(data)
  \/ \E t \in 1..MaxArrivals : RtuFrameTimeout(t)

SpecChannels == InitChannels /\ [][NextChannels]_vars

-----------------------------------------------------------------------------
(* The two codecs side by side: one PDU, framed for Modbus TCP and for the *)
(* serial link, is given to both processRequest functions from the same    *)
(* register store.                                                         *)

\* the PDUs offered to both codecs, valid and invalid
TwinPdus == FullPdus \cup SerialPdus

\* the socket 'data' handler runs the TCP codec on the PDU in an MBAP frame
\* and the store goes on from its result; the RTU codec is given the same
\* PDU between slave id and CRC, from the same store
TwinRequest(unitId, pdu) ==
  \E out \in { TcpProcessRequest(slaves, WellFormedAdu(258, unitId, pdu)) } :
      /\ op' = "twin"
      /\ request' = WellFormedAdu(258, unitId, pdu)
      /\ web' = NoWebRequest
      /\ before' = slaves
      /\ slaves' = out.slaves
      /\ response' = out.response
      /\ saves' = out.saves
      /\ written' = WrittenAfterFrame("tcp", WellFormedAdu(258, unitId, pdu), out.response)
      /\ twin' = RtuProcessRequest(slaves, RtuAdu(unitId, pdu))
      /\ UNCHANGED restVars

NextTwin == \E unitId \in SLAVE_IDS, pdu \in TwinPdus : TwinRequest(unitId, pdu)

SpecTwin == Init /\ [][NextTwin]_vars

-----------------------------------------------------------------------------
(* The CRC16 engine on its own: appendCRC on a byte sequence, a single-bit *)
(* error on the line, verifyCRC on what arrives                            *)

MaxCrcLen == 4

\* byte values the sequences are made of
CrcByteValues == {0, 1, 128, 255}

CrcInputs == UNION { [1..n -> CrcByteValues] : n \in 0..MaxCrcLen }

\* the frame with the bit of weight w of its byte at offset pos inverted
FlipBit(frame, pos, w) ==
  [frame EXCEPT ![pos + 1] = IF Bit(@, w) = 1 THEN @ - w ELSE @ + w]

InitCrc ==
  /\ InitStore
  /\ PersistIdle
  /\ RtuIdle
  /\ TcpIdle
  /\ crcData \in CrcInputs
  /\ crcFrame = << >>
  /\ crcStep = "input"
  /\ crcVerified = FALSE

\* appendCRC(crcData)
CrcAppend ==
  /\ crcStep = "input"
  /\ crcFrame' = appendCRC(crcData)
  /\ crcStep' = "appended"
  /\ UNCHANGED << crcData, crcVerified, storeVars, persistVars, rtuVars, tcpVars >>

\* one bit of the appended frame is inverted in transit
CrcFlip(pos, w) ==
  /\ crcStep = "appended"
  /\ pos < Len(crcFrame)
  /\ crcFrame' = FlipBit(crcFrame, pos, w)
  /\ crcStep' = "flipped"
  /\ UNCHANGED << crcData, crcVerified, storeVars, persistVars, rtuVars, tcpVars >>

\* verifyCRC(crcFrame)
CrcVerify ==
  /\ crcStep \in {"appended", "flipped"}
  /\ crcVerified' = verifyCRC(crcFrame)
  /\ crcStep' = IF crcStep = "appended" THEN "verifiedIntact" ELSE "verifiedFlipped"
  /\ UNCHANGED << crcData, crcFrame, storeVars, persistVars, rtuVars, tcpVars >>

NextCrc ==
  \/ CrcAppend
  \/ \E pos \in 0..(MaxCrcLen + 1), w \in {1, 2, 4, 8, 16, 32, 64, 128} : CrcFlip(pos, w)
  \/ CrcVerify

SpecCrc == InitCrc /\ [][NextCrc]_vars

-----------------------------------------------------------------------------
(* What the last handler was asked and what it answered, read off the wire *)
(* formats                                                                 *)

ModbusOps == {"tcp", "rtu", "simple"}

ReqPdu == PduOf(op, request)

ReqUnit == UnitOf(op, request)

ReqCode == ReqPdu[1]

\* start address / register address of a 0x03, 0x06 or 0x10 request
ReqAddr == readUInt16BE(ReqPdu, 1)

\* quantity of a 0x03 or 0x10 request, value of a 0x06 request
ReqQty == readUInt16BE(ReqPdu, 3)

\* the bytes after the byte-count field of a normal 0x03 response
ResponseData ==
  IF op = "tcp" THEN SubSeq(response, 10, Len(response))
  ELSE SubSeq(response, 4, Len(response) - 2)

-----------------------------------------------------------------------------
(* C1: a Read Holding Registers request that either codec answers normally *)
(* returns exactly `quantity` values, the i-th being registers[start + i]  *)
(* of the addressed slave when start + i < 500 and 0 otherwise, and the    *)
(* read changes no register.                                               *)
C1_ReadReturnsRegisters ==
  (op \in ModbusOps /\ IsNormal(op, response) /\ ReqCode = 3) =>
      /\ Len(ResponseData) = 2 * ReqQty
      /\ \A i \in 0..(ReqQty - 1) :
            readUInt16BE(ResponseData, 2 * i)
              = IF ReqAddr + i < 500 THEN before[ReqUnit][ReqAddr + i] ELSE 0
      /\ slaves = before

\* a read of 498..500 over RTU that returns a stored value and the padding
C1_Witness ==
  /\ op = "rtu" /\ IsNormal(op, response) /\ ReqCode = 3
  /\ ReqAddr = 498 /\ ReqQty = 3
  /\ before[1][498] = 4369 /\ before[1][499] = 8738
  /\ ResponseData = << 17, 17, 34, 34, 0, 0 >>

(* C2: once a Write Single Register of v to (s, a), a < 500, was accepted  *)
(* on any transport, every read of a on s on any transport returns v until *)
(* a write, a web edit or a clear addresses (s, a).                        *)
C2_WriteThenRead ==
  (op \in ModbusOps /\ IsNormal(op, response) /\ ReqCode = 3) =>
      \A t \in written :
         (t[1] = ReqUnit /\ t[2] >= ReqAddr /\ t[2] < ReqAddr + ReqQty)
            => readUInt16BE(ResponseData, 2 * (t[2] - ReqAddr)) = t[3]

\* a read over the serial link of a register of slave 2, which only Modbus
\* TCP writes
C2_Witness ==
  /\ op = "rtu" /\ IsNormal(op, response) /\ ReqCode = 3
  /\ << 2, 3, 43981 >> \in written
  /\ ReqUnit = 2 /\ ReqAddr = 3 /\ ReqQty = 1
  /\ ResponseData = << 171, 205 >>

(* C3: a Write Single Register to an address >= 500 changes no register of *)
(* any slave; an accepted Write Multiple Registers assigns exactly the     *)
(* offsets i with start + i < 500 and drops the others without effect.     *)
C3_OutOfRangeWriteDropped ==
  /\ (op \in ModbusOps /\ Len(ReqPdu) >= 5 /\ ReqCode = 6 /\ ReqAddr >= 500)
        => slaves = before
  /\ (op \in ModbusOps /\ IsNormal(op, response) /\ ReqCode = 16)
        => slaves = [before EXCEPT ![ReqUnit] =
                        [a \in 0..499 |->
                            IF a >= ReqAddr /\ a < ReqAddr + ReqQty
                            THEN readUInt16BE(ReqPdu, 6 + 2 * (a - ReqAddr))
                            ELSE before[ReqUnit][a]]]

\* a Write Multiple Registers of 498..500: 498 and 499 assigned, 500 dropped
C3_Witness ==
  /\ op = "tcp" /\ IsNormal(op, response) /\ ReqCode = 16
  /\ ReqAddr = 498 /\ ReqQty = 3
  /\ before[1][498] = 0 /\ slaves[1][498] = 4369 /\ slaves[1][499] = 8738
  /\ DOMAIN slaves[1] = 0..499

-----------------------------------------------------------------------------
(* Framing, read off the request on the wire                               *)

\* A Modbus TCP request with protocol id 0 and a complete frame: the MBAP
\* header and a function code are there, and at least the bytes the length
\* field announces
TcpFramed ==
  /\ op = "tcp"
  /\ Len(request) >= 8
  /\ readUInt16BE(request, 2) = 0
  /\ Len(request) >= 6 + readUInt16BE(request, 4)

\* An RTU frame that passes framing validation: long enough for the
\* transport that delivered it and closed by the CRC of its other bytes
RtuFramed ==
  /\ op \in {"rtu", "simple"}
  /\ Len(request) >= (IF op = "rtu" THEN 8 ELSE 4)
  /\ readUInt16LE(request, Len(request) - 2)
        = calculateCRC(SubSeq(request, 1, Len(request) - 2))

\* The Modbus TCP exception response to the request, with exception code c
TcpExceptionIs(c) ==
  /\ Len(response) = 9
  /\ SubSeq(response, 1, 2) = SubSeq(request, 1, 2)
  /\ SubSeq(response, 3, 6) = << 0, 0, 0, 3 >>
  /\ response[7] = request[7]
  /\ response[8] >= 128 /\ response[8] % 128 = request[8] % 128
  /\ response[9] = c

\* The RTU exception response to the request, with exception code c
RtuExceptionIs(c) ==
  /\ Len(response) = 5
  /\ response[1] = request[1]
  /\ response[2] >= 128 /\ response[2] % 128 = request[2] % 128
  /\ response[3] = c
  /\ response[4] + 256 * response[5] = calculateCRC(SubSeq(response, 1, 3))

(* C5: on the TCP path every request with protocol id 0 and a complete     *)
(* frame whose unit id is not a configured slave is answered with an       *)
(* exception response: function code = request's | 0x80, exception code    *)
(* 0x0B, the request's transaction id and unit id; whatever the function   *)
(* code, and no register is changed.                                       *)
C5_TcpUnknownUnitException ==
  (TcpFramed /\ ReqUnit \notin SLAVE_IDS) =>
      /\ TcpExceptionIs(11)
      /\ slaves = before

\* a read addressed to unit 99 answered 0x83 / 0x0B
C5_Witness ==
  /\ TcpFramed /\ ReqUnit = 99 /\ ReqCode = 3
  /\ response = << 1, 2, 0, 0, 0, 3, 99, 131, 11 >>

(* C6: on the RTU and simple paths a frame with a valid CRC addressed to a  *)
(* slave id that is not configured gets no response at all, whatever its   *)
(* function code, and changes no register.                                 *)
C6_RtuUnknownSlaveSilent ==
  (RtuFramed /\ ReqUnit \notin SLAVE_IDS) =>
      /\ response = NoResponse
      /\ slaves = before

\* a write addressed to slave 99 over the serial link, dropped
C6_Witness ==
  /\ RtuFramed /\ op = "rtu" /\ ReqUnit = 99 /\ ReqCode = 6
  /\ response = NoResponse

(* C7: every frame that passes framing validation, is addressed to a       *)
(* configured slave and carries a function code other than 0x03, 0x06 and  *)
(* 0x10 is answered, by the TCP and by the RTU codec, with an exception    *)
(* response: function code = request's | 0x80, exception code 0x01; no     *)
(* register is changed.                                                    *)
C7_UnsupportedFunctionException ==
  /\ (TcpFramed /\ ReqUnit \in SLAVE_IDS /\ ReqCode \notin {3, 6, 16})
        => (TcpExceptionIs(1) /\ slaves = before)
  /\ (RtuFramed /\ ReqUnit \in SLAVE_IDS /\ ReqCode \notin {3, 6, 16})
        => (RtuExceptionIs(1) /\ slaves = before)

\* function code 0x01 over the serial link answered 0x81 / 0x01
C7_Witness ==
  /\ RtuFramed /\ op = "rtu" /\ ReqUnit = 1 /\ ReqCode = 1
  /\ SubSeq(response, 1, 3) = << 1, 129, 1 >>

(* C8: on the TCP path a Read Holding Registers request to a configured    *)
(* unit is answered with exception 0x03 if and only if its quantity is     *)
(* outside 1..125 or the PDU is too short to carry start address and       *)
(* quantity; for every quantity in 1..125 the response is a normal         *)
(* response whose byte-count field equals 2 * quantity.                    *)
C8_TcpReadQuantityLimit ==
  (TcpFramed /\ ReqUnit \in SLAVE_IDS /\ ReqCode = 3) =>
      IF Len(ReqPdu) < 5 \/ ReqQty < 1 \/ ReqQty > 125
      THEN TcpExceptionIs(3)
      ELSE /\ ~TcpExceptionIs(3)
           /\ Len(response) = 9 + 2 * ReqQty
           /\ SubSeq(response, 1, 2) = SubSeq(request, 1, 2)
           /\ response[7] = request[7]
           /\ response[8] = 3
           /\ response[9] = 2 * ReqQty

\* a read of 125 registers, the largest quantity, answered with 250 bytes
C8_Witness ==
  /\ TcpFramed /\ ReqUnit = 1 /\ ReqCode = 3 /\ Len(ReqPdu) = 5 /\ ReqQty = 125
  /\ response[8] = 3 /\ response[9] = 250 /\ Len(response) = 259

(* C9: Write Single Register with register address >= 500: on the TCP path *)
(* the response is exception 0x02 and no register changes; on the RTU path *)
(* the response is the echo of the request's slave id, function code,      *)
(* address and value, and no register changes.                             *)
C9_WriteSingleOutOfRange ==
  /\ (TcpFramed /\ ReqUnit \in SLAVE_IDS /\ ReqCode = 6 /\ Len(ReqPdu) >= 5 /\ ReqAddr >= 500)
        => (TcpExceptionIs(2) /\ slaves = before)
  /\ (RtuFramed /\ ReqUnit \in SLAVE_IDS /\ ReqCode = 6 /\ Len(request) = 8 /\ ReqAddr >= 500)
        => /\ Len(response) = 8
           /\ SubSeq(response, 1, 6) = SubSeq(request, 1, 6)
           /\ response[7] + 256 * response[8] = calculateCRC(SubSeq(response, 1, 6))
           /\ slaves = before

\* a write of 0xABCD to register 500 over the serial link, echoed
C9_Witness ==
  /\ RtuFramed /\ op = "rtu" /\ ReqUnit = 1 /\ ReqCode = 6 /\ ReqAddr = 500
  /\ SubSeq(response, 1, 6) = << 1, 6, 1, 244, 171, 205 >>
  /\ slaves = before

(* C10: on the TCP path a Write Multiple Registers request is accepted     *)
(* only if its byte count equals quantity * 2 and the PDU is exactly       *)
(* 6 + byte count bytes long; every request violating either condition is  *)
(* answered with exception 0x03 and writes no register.                    *)
C10_TcpWriteMultipleExactLength ==
  (TcpFramed /\ ReqUnit \in SLAVE_IDS /\ ReqCode = 16) =>
      ((Len(ReqPdu) < 6
          \/ ReqPdu[6] # 2 * ReqQty
          \/ Len(ReqPdu) # 6 + ReqPdu[6])
        => (TcpExceptionIs(3) /\ slaves = before))

(* C11: on the TCP path any write request with an addressed register index *)
(* >= 500 is answered with exception 0x02: a Write Single Register to an   *)
(* address >= 500, and a Write Multiple Registers (otherwise valid: byte   *)
(* count = 2 * quantity, PDU of 6 + byte count bytes) whose range          *)
(* start..start+quantity-1 extends past 499.                               *)
C11_TcpWritePastRangeException ==
  (TcpFramed /\ ReqUnit \in SLAVE_IDS /\ Len(ReqPdu) >= 5) =>
      /\ (ReqCode = 6 /\ ReqAddr >= 500) => TcpExceptionIs(2)
      /\ (/\ ReqCode = 16 /\ Len(ReqPdu) >= 6
          /\ ReqPdu[6] = 2 * ReqQty /\ Len(ReqPdu) = 6 + ReqPdu[6]
          /\ ReqQty >= 1 /\ ReqAddr + ReqQty - 1 >= 500) => TcpExceptionIs(2)

(* C12: every response of the TCP codec, normal or exception, carries the  *)
(* request's transaction id, protocol id and unit id, and its MBAP length  *)
(* field equals the response PDU length + 1, the response size minus 6.    *)
C12_TcpResponseHeader ==
  (op = "tcp" /\ response # NoResponse) =>
      /\ Len(response) >= 8
      /\ SubSeq(response, 1, 2) = SubSeq(request, 1, 2)
      /\ SubSeq(response, 3, 4) = SubSeq(request, 3, 4)
      /\ response[7] = request[7]
      /\ readUInt16BE(response, 4) = Len(response) - 6
      /\ readUInt16BE(response, 4) = Len(SubSeq(response, 8, Len(response))) + 1

\* a normal read response of 6 data bytes to transaction 0xFFFE: length 9
C12_Witness ==
  /\ op = "tcp" /\ readUInt16BE(request, 0) = 65534
  /\ SubSeq(response, 1, 9) = << 255, 254, 0, 0, 0, 5, 1, 3, 2 >>
  /\ Len(response) = 11

(* C13: a TCP frame whose protocol id is not 0 is rejected with no         *)
(* response, no register change and no persistence request, whatever its   *)
(* unit id, function code and payload.                                     *)
C13_TcpProtocolIdRejected ==
  (op = "tcp" /\ Len(request) >= 4 /\ readUInt16BE(request, 2) # 0) =>
      /\ response = NoResponse
      /\ slaves = before
      /\ saves = 0

\* a Write Multiple Registers with protocol id 0x0100, dropped
C13_Witness ==
  /\ op = "tcp" /\ Len(request) >= 8 /\ readUInt16BE(request, 2) = 256
  /\ request[7] = 1 /\ request[8] = 16
  /\ response = NoResponse /\ slaves[1][3] = before[1][3]

(* C14: a TCP frame whose declared MBAP length is inconsistent with the    *)
(* bytes received (received size differs from 6 + length, shorter or       *)
(* longer) is discarded: no response is sent and no register changes.      *)
C14_TcpLengthInconsistentDiscarded ==
  (op = "tcp" /\ Len(request) >= 6 /\ Len(request) # 6 + readUInt16BE(request, 4)) =>
      /\ response = NoResponse
      /\ slaves = before

(* C15: an RTU frame whose last two bytes are not the CRC-16/MODBUS of the *)
(* bytes before them (low byte first) yields no response, changes no       *)
(* register and dispatches no persistence request.                         *)
C15_RtuBadCrcDiscarded ==
  (/\ op \in {"rtu", "simple"} /\ Len(request) >= 2
   /\ readUInt16LE(request, Len(request) - 2)
         # calculateCRC(SubSeq(request, 1, Len(request) - 2))) =>
      /\ response = NoResponse
      /\ slaves = before
      /\ saves = 0

\* a valid write frame with its last CRC byte incremented by 1, dropped
C15_Witness ==
  /\ op = "rtu" /\ Len(request) = 8
  /\ SubSeq(request, 1, 6) = << 1, 6, 0, 3, 171, 205 >>
  /\ readUInt16LE(request, 6) = (calculateCRC(SubSeq(request, 1, 6)) + 256) % 65536
  /\ response = NoResponse /\ slaves = before

(* C16 as claimed: CRC round trip, for all byte sequences b including the  *)
(* empty sequence and one-byte sequences verifyCRC(appendCRC(b)) is true.  *)
C16_CrcRoundTripEveryInput ==
  crcStep = "verifiedIntact" => crcVerified

(* C16 as amended: for every byte sequence b of at least one byte          *)
(* verifyCRC(appendCRC(b)) is true; for the empty sequence appendCRC(b) is *)
(* the two CRC bytes alone, shorter than 3 bytes, and verifyCRC is false.  *)
C16_CrcRoundTrip ==
  crcStep = "verifiedIntact" =>
      /\ Len(crcFrame) = Len(crcData) + 2
      /\ SubSeq(crcFrame, 1, Len(crcData)) = crcData
      /\ crcVerified = (Len(crcData) >= 1)

\* the round trip of the one-byte sequence 0x80
C16_Witness ==
  /\ crcStep = "verifiedIntact" /\ crcData = << 128 >>
  /\ Len(crcFrame) = 3 /\ crcVerified

(* C17: CRC single-bit error detection, for every byte sequence b and      *)
(* every bit position of appendCRC(b), in the data bytes or in the two CRC *)
(* bytes, verifyCRC of the frame with that bit flipped is false.           *)
C17_CrcSingleBitDetected ==
  crcStep = "verifiedFlipped" => ~crcVerified

\* a flip in the first of three data bytes, the CRC bytes left as appended
C17_Witness ==
  /\ crcStep = "verifiedFlipped" /\ crcData = << 1, 0, 255 >>
  /\ crcFrame[1] = 129 /\ SubSeq(crcFrame, 2, 3) = << 0, 255 >>
  /\ ~crcVerified

(* C18: on the RTU path a read never fails, every 8-byte Read Holding      *)
(* Registers frame with a valid CRC addressed to a configured slave, for   *)
(* every start address and every quantity in 0..65535, is answered with a  *)
(* well-formed normal response holding a byte count and exactly `quantity` *)
(* zero-padded 16-bit values; it is never rejected or left unanswered.     *)
C18_RtuReadNeverFails ==
  (RtuFramed /\ ReqUnit \in SLAVE_IDS /\ ReqCode = 3 /\ Len(request) = 8) =>
      /\ response # NoResponse
      /\ response[1] = request[1]
      /\ response[2] = 3
      /\ Len(response) = 5 + 2 * ReqQty
      /\ \A i \in 0..(ReqQty - 1) :
            readUInt16BE(ResponseData, 2 * i)
              = IF ReqAddr + i < 500 THEN before[ReqUnit][ReqAddr + i] ELSE 0

\* The last handler answered a 0x06 or 0x10 request with a response that is
\* not an exception
SuccessfulWrite ==
  op \in ModbusOps /\ IsNormal(op, response) /\ ReqCode \in {6, 16}

\* The response was produced with the saveSlaves() of the handler still in
\* flight: the snapshot dispatched last is the store the handler left
SaveInFlight ==
  pending # << >> /\ pending[Len(pending)] = slaves

(* C19 as claimed: every write request (0x06 or 0x10) answered with a      *)
(* success response, on either transport, dispatches exactly one           *)
(* saveSlaves and the response is returned without waiting for it to       *)
(* complete; reads, exception responses and discarded frames dispatch      *)
(* none.                                                                   *)
C19_SuccessfulWriteDispatchesOneSave ==
  /\ SuccessfulWrite => (saves = 1 /\ SaveInFlight)
  /\ (op \in ModbusOps /\ ~SuccessfulWrite) => saves = 0

(* C19 as amended: every write request (0x06 or 0x10) answered with a      *)
(* success response dispatches exactly one saveSlaves and the response is  *)
(* returned without waiting for it to complete, except a Write Single      *)
(* Register to an address >= 500 on the RTU codec, which is echoed,        *)
(* assigns nothing and dispatches none; reads, exception responses and     *)
(* discarded frames dispatch none.                                         *)
C19_AppliedWriteDispatchesOneSave ==
  LET echoed == op \in {"rtu", "simple"} /\ ReqCode = 6 /\ ReqAddr >= 500
  IN  /\ (SuccessfulWrite /\ ~echoed) => (saves = 1 /\ SaveInFlight)
      /\ (SuccessfulWrite /\ echoed) => (saves = 0 /\ slaves = before)
      /\ (op \in ModbusOps /\ ~SuccessfulWrite) => saves = 0

\* a Write Multiple Registers over the serial link answered while its save
\* and the save of an earlier write are both in flight
C19_Witness ==
  /\ op = "rtu" /\ SuccessfulWrite /\ ReqCode = 16
  /\ saves = 1 /\ Len(pending) = 2 /\ pending[2] = slaves /\ pending[1] # slaves

\* A genuine 8-byte request frame for a configured slave: closed by its
\* CRC, a read of 1..125 registers or a Write Single Register
GenuineFrame8(f) ==
  /\ Len(f) = 8
  /\ f[1] \in SLAVE_IDS
  /\ readUInt16LE(f, 6) = calculateCRC(SubSeq(f, 1, 6))
  /\ \/ f[2] = 6
     \/ f[2] = 3 /\ readUInt16BE(f, 4) \in 1..125

-----------------------------------------------------------------------------
(* Transport lifecycle                                                     *)

\* The serial handles that are open or being opened
LiveHandles == { h \in DOMAIN handles : handles[h] \in { "opening", "open" } }

\* Only start and restart were called on the RTU transport so far
OnlyStartsAndRestarts ==
  \A i \in DOMAIN rtuCalls : rtuCalls[i] # "stop"

(* C21: RTU start is safe when already started.  After any sequence of     *)
(* start(config) and restart(config) calls, at most one serial handle is   *)
(* open or opening, and every open handle (the one whose data handler      *)
(* receives frames) is the one this.port refers to.                        *)
C21_RtuStartIdempotent ==
  OnlyStartsAndRestarts =>
    /\ Cardinality(LiveHandles) <= 1
    /\ \A h \in DOMAIN handles : isOpen(h) => port = h

\* The last silence timer callback ran on request = the buffer it found
TimerJustFired == op = "rtu"

(* C24: when the RTU silence timer fires, the accumulation buffer is empty *)
(* afterwards in every case; a buffer shorter than 8 bytes is never handed *)
(* to the codec, produces no response and changes no register.             *)
C24_BufferEmptyAfterTimeout ==
  /\ TimerJustFired =>
        /\ buffer = << >>
        /\ Len(request) < 8 => (response = NoResponse /\ slaves = before /\ saves = 0)
  /\ \A i \in DOMAIN handed : IsRtuEntry(handed[i]) => Len(handed[i].buffer) >= 8

\* the timer fired on a 3-byte buffer, after it fired on a frame that was
\* answered, on a frame the codec rejected and on a read of 128 registers,
\* on which the codec throws
C24_Witness ==
  /\ TimerJustFired /\ Len(request) = 3 /\ buffer = << >>
  /\ Len(serialOut) = 1 /\ Len(handed) = 3
  /\ ~verifyCRC(handed[2].buffer)
  /\ verifyCRC(handed[3].buffer) /\ readUInt16BE(handed[3].buffer, 4) = 128

\* The last thing that happened to the RTU transport, other than frames,
\* is a failed open
OpenFailedLast == rtuCalls # << >> /\ rtuCalls[Len(rtuCalls)] = "openFailed"

(* C22: when the asynchronous open of the serial device fails, the RTU    *)
(* transport is inactive: it holds no port handle, no handle is open or    *)
(* opening, and no frame is received, processed or answered until a later  *)
(* start; a start(config) that runs later opens a new handle instead of    *)
(* returning as already started.                                           *)
C22_RtuOpenFailureInactive ==
  /\ OpenFailedLast =>
        /\ port = 0
        /\ LiveHandles = { }
        /\ op \notin { "data", "rtu" }
  /\ op \in { "start", "delayedStart" } =>
        (port # 0 /\ handles[port] \in { "opening", "open" })

\* The net.Server objects whose listen failed
FailedServers == { s \in DOMAIN servers : servers[s] = "failed" }

\* This step runs the body of start(port), called or delayed
TcpStartRuns ==
  /\ tcpCalls' # tcpCalls
  /\ tcpCalls'[Len(tcpCalls')] \in { "start", "delayedStart" }

(* C23: when the TCP listen fails because the port is in use, the TCP      *)
(* transport holds no server handle afterwards (this.server = null), so a  *)
(* start(port) that runs while no server is listening creates a server and *)
(* listens again instead of returning as already running.                  *)
C23_TcpListenFailureInactive ==
  [][ /\ \A s \in FailedServers' : server' # s
      /\ (TcpStartRuns /\ (server = 0 \/ servers[server] = "failed")) =>
            Len(servers') = Len(servers) + 1 ]_vars

\* The 'data' events whose bytes were in the i-th buffer handed to the codec
HandedStamps(i) == { handed[i].stamps[k] : k \in DOMAIN handed[i].stamps }

(* C25: the RTU framer has at most one pending silence timer at every      *)
(* moment, the one armed by the last 'data' event; a buffer is handed to   *)
(* the codec only by the timer that the last 'data' event in it armed (no  *)
(* byte arrived since), and the bytes of a 'data' event are never handed   *)
(* to the codec twice.                                                     *)
C25_SingleSilenceTimer ==
  /\ Cardinality(timers) <= 1
  /\ timers \subseteq { frameTimeout }
  /\ \A i \in DOMAIN handed : IsRtuEntry(handed[i]) =>
        /\ handed[i].stamps # << >>
        /\ handed[i].timer = handed[i].stamps[Len(handed[i].stamps)]
        /\ Cardinality(HandedStamps(i)) = Len(handed[i].stamps)
  /\ \A i, j \in DOMAIN handed : i # j => HandedStamps(i) \cap HandedStamps(j) = { }

\* a frame that arrived in two pieces was handed to the codec by the timer
\* of the second piece, the next frame by its own timer
C25_Witness ==
  /\ TimerJustFired /\ timers = { }
  /\ Len(handed) = 2
  /\ handed[1].stamps = << 1, 2 >> /\ handed[1].timer = 2 /\ Len(handed[1].buffer) = 8
  /\ handed[2].stamps = << 3 >> /\ handed[2].timer = 3
  /\ Len(serialOut) = 2

\* The delimited frames handed to the codecs, replayed one after the other
\* from the initial store: the store after the first n of them and the
\* response of each
RECURSIVE Replay(_)
Replay(n) ==
  IF n = 0
  THEN [slaves |-> [id \in SLAVE_IDS |-> FreshRegisters], answers |-> << >>]
  ELSE LET prev == Replay(n - 1)
           e    == handed[n]
           out  == IF IsRtuEntry(e) THEN RtuProcessRequest(prev.slaves, e.buffer)
                   ELSE TcpProcessRequest(prev.slaves, e.buffer)
       IN  [slaves  |-> out.slaves,
            answers |-> Append(prev.answers, [channel |-> e.channel, response |-> out.response])]

\* The responses the replay gives on one channel, in the order of its frames
ReplayedOn(answers, ch) ==
  LET Mine(a) == a.channel = ch /\ a.response # NoResponse
      mine    == SelectSeq(answers, Mine)
  IN  [i \in 1..Len(mine) |-> mine[i].response]

\* The number of frames delimited on one channel
FramesOn(ch) == LET Mine(e) == e.channel = ch IN Len(SelectSeq(handed, Mine))

IsRun(c) == c \in { "start", "stop", "restart", "delayedStart" }

\* stop() ran on the RTU transport, in a stop or a restart call, and no
\* start(config) has run since
RtuStopped ==
  LET runs == SelectSeq(rtuCalls, IsRun)
  IN  runs # << >> /\ runs[Len(runs)] \in { "stop", "restart" }

(* C27: stopping the RTU transport cancels the pending silence timer and   *)
(* closes the handle: once stop() has run and until the transport is       *)
(* started again, no timer is left from before the stop, no accumulated    *)
(* buffer is handed to the codec, no register is changed by the RTU        *)
(* transport and no RTU response is written.                               *)
C27_RtuStopQuiesces ==
  RtuStopped =>
    /\ op \in { "stop", "restart" } => timers = { }
    /\ TimerJustFired =>
          (Len(request) < 8 /\ slaves = before /\ response = NoResponse)

\* stop() ran on the TCP transport, in a stop or a restart call, and no
\* start(port) has run since
TcpStopped ==
  /\ tcpCalls # << >>
  /\ tcpCalls[Len(tcpCalls)] \in { "stop", "restart" }

(* C28: stopping the TCP transport cancels its sockets: once stop() has    *)
(* run and until the transport is started again, no request arriving on    *)
(* any connection, those accepted before the stop included, is processed,  *)
(* answered or allowed to change a register.                               *)
C28_TcpStopQuiesces ==
  TcpStopped => op # "tcp"

\* The most recent control call on the TCP transport is stop()
TcpStopCalledLast ==
  LET calls == SelectSeq(tcpCalls, IsControlCall)
  IN  calls # << >> /\ calls[Len(calls)] = "stop"

\* The most recent control call on the RTU transport is stop()
RtuStopCalledLast ==
  LET calls == SelectSeq(rtuCalls, IsControlCall)
  IN  calls # << >> /\ calls[Len(calls)] = "stop"

(* C29: if stop() is the most recent control call on a transport, the      *)
(* transport is inactive until the next start or restart call: the TCP     *)
(* transport holds no server and none is listening, the RTU transport has  *)
(* no handle open or opening.  A stop() issued after restart() and before  *)
(* the settle delay has elapsed is not undone by the delayed start.        *)
C29_StopIsFinal ==
  /\ TcpStopCalledLast =>
        (server = 0 /\ \A s \in DOMAIN servers : servers[s] # "listening")
  /\ RtuStopCalledLast =>
        ((port = 0 \/ handles[port] = "closing") /\ LiveHandles = { })

(* C30: RTU framer state does not leak across a stop/start cycle: bytes    *)
(* that were in the buffer when stop() ran are never part of a buffer      *)
(* handed to the codec after a later start().                              *)
C30_NoLeakAcrossRestart ==
  (TimerJustFired /\ Len(request) >= 8 /\ ~RtuStopped) =>
      HandedStamps(Len(handed)) \cap stale = { }

-----------------------------------------------------------------------------
(* Frame effects                                                           *)

(* C31: every request that ends in an exception response or in no response *)
(* on the TCP or the RTU codec leaves every register of every slave        *)
(* unchanged: no rejected frame is partially applied.                      *)
C31_RejectedFrameNoEffect ==
  (op \in ModbusOps /\ ~IsNormal(op, response)) => slaves = before

\* a Write Multiple Registers of two registers that carries one value and
\* a byte count of 2: answered with exception 0x03, register 3 still 0
C31_Witness ==
  /\ TcpFramed /\ ReqUnit = 1 /\ ReqCode = 16 /\ Len(ReqPdu) = 8
  /\ ReqAddr = 3 /\ ReqQty = 2 /\ SubSeq(ReqPdu, 7, 8) = << 171, 205 >>
  /\ TcpExceptionIs(3)
  /\ before[1][3] = 0 /\ slaves[1][3] = 0

\* The last handler was given a 0x06 or 0x10 request with its address field
WriteRequest ==
  /\ op \in ModbusOps
  /\ Len(request) >= 8
  /\ Len(ReqPdu) >= 5
  /\ ReqCode \in { 6, 16 }

(* C32: a write request addressed to slave s (0x06 or 0x10, any transport) *)
(* changes only registers of s at addressed indices below 500: every other *)
(* register of s and every register of every other slave is unchanged, no  *)
(* register is added, and the set of configured slave ids is unchanged.    *)
C32_WriteFrameEffect ==
  WriteRequest =>
      /\ DOMAIN slaves = DOMAIN before
      /\ \A s \in DOMAIN before :
            /\ DOMAIN slaves[s] = DOMAIN before[s]
            /\ \A a \in DOMAIN before[s] :
                  slaves[s][a] # before[s][a] =>
                      (s = ReqUnit /\ a < 500 /\ << s, a >> \in Targets(op, request))

\* a Write Multiple Registers of 498..500 over the serial link after slave
\* 2 was written over Modbus TCP: 498 and 499 of slave 1 change, register 3
\* of both slaves keeps its value
C32_Witness ==
  /\ WriteRequest /\ op = "rtu" /\ ReqCode = 16 /\ ReqUnit = 1
  /\ ReqAddr = 498 /\ ReqQty = 3
  /\ before[1][498] = 0 /\ slaves[1][498] = 4369 /\ slaves[1][499] = 8738
  /\ before[2][3] = 43981 /\ slaves[2][3] = 43981 /\ slaves[2][498] = 0
  /\ slaves[1][3] = before[1][3]

\* The PDU both codecs were given
TwinPdu == SubSeq(request, 8, Len(request))

\* Valid traffic: a read of 1..125 registers, a Write Single Register to an
\* address below 500, a Write Multiple Registers whose byte count is twice
\* the quantity and whose values fill the PDU exactly
ValidTwinRequest ==
  /\ op = "twin"
  /\ request[7] \in SLAVE_IDS
  /\ Len(TwinPdu) >= 5
  /\ \/ /\ TwinPdu[1] = 3 /\ Len(TwinPdu) = 5
        /\ readUInt16BE(TwinPdu, 3) \in 1..125
     \/ /\ TwinPdu[1] = 6 /\ Len(TwinPdu) = 5
        /\ readUInt16BE(TwinPdu, 1) < 500
     \/ /\ TwinPdu[1] = 16 /\ Len(TwinPdu) >= 6
        /\ TwinPdu[6] = 2 * readUInt16BE(TwinPdu, 3)
        /\ Len(TwinPdu) = 6 + TwinPdu[6]

(* C33: the TCP and the RTU codec agree on valid traffic.  For a request   *)
(* to a configured slave that is a 0x03 read with quantity in 1..125, a    *)
(* 0x06 write with address < 500 or a 0x10 write with byte count =         *)
(* quantity * 2 and exact length, from the same register state both codecs *)
(* answer, with the same response PDU (function code and payload, between  *)
(* the MBAP header and unit id on one side, the slave id and the CRC on    *)
(* the other), and leave the same register state.                          *)
C33_CodecsAgree ==
  ValidTwinRequest =>
      /\ response # NoResponse
      /\ twin.response # NoResponse
      /\ SubSeq(response, 8, Len(response))
            = SubSeq(twin.response, 2, Len(twin.response) - 2)
      /\ response[7] = twin.response[1]
      /\ twin.slaves = slaves

\* a Write Multiple Registers of 498..500 answered alike by both codecs,
\* after which a read of 498..500 is answered alike with the values written
C33_Witness ==
  /\ ValidTwinRequest /\ TwinPdu = ReadPdu(498, 3)
  /\ SubSeq(response, 8, Len(response)) = << 3, 6, 17, 17, 34, 34, 0, 0 >>
  /\ SubSeq(twin.response, 2, 9) = << 3, 6, 17, 17, 34, 34, 0, 0 >>
  /\ twin.slaves = slaves /\ slaves[request[7]][499] = 8738

-----------------------------------------------------------------------------
(* Persistence of the register store                                       *)

\* Some saveSlaves() was dispatched and the writeFile of every one of them
\* has completed
AllSavesCompleted == pending = << >> /\ disk # << >>

(* C34: persistence converges.  Each saveSlaves call snapshots the store   *)
(* when it is dispatched and completes asynchronously; once every          *)
(* dispatched persistence operation has completed, and as long as no       *)
(* further write occurs, the snapshot in the data file equals the register *)
(* store in memory, whatever the order in which the operations in flight   *)
(* completed.                                                              *)
C34_PersistenceConverges ==
  AllSavesCompleted => disk[1] = slaves

====
